---------------------------- MODULE Spec2Model ----------------------------
(***************************************************************************)
(* Model of @postalsys/bounce-classifier (src/src/index.js): the           *)
(* process-wide singleton state (weights, vocabMap, labels, isInitialized, *)
(* initPromise, modelBasePath, cachedModelPath), the asynchronous load     *)
(* started by initialize(), and the public operations initialize(),        *)
(* classify(), getLabels(), isReady() and reset().                         *)
(*                                                                         *)
(* JavaScript runs one job at a time.  A step of the model is one          *)
(* run-to-completion piece of code: the synchronous part of a call up to   *)
(* its first await, or the resumption of an async function after an await. *)
(* Completions of file or network I/O are macrotasks: the event loop runs  *)
(* one only when no promise reaction (microtask) is pending.               *)
(***************************************************************************)
EXTENDS Naturals, Sequences, FiniteSets, Bags

(***************************************************************************)
(* Bounds of the model.                                                    *)
(***************************************************************************)
MaxPending == 2  \* calls of initialize/classify/getLabels pending at once
MaxLoads == 2    \* loads started in one behaviour

(***************************************************************************)
(* Program constants.                                                      *)
(***************************************************************************)
MAX_MESSAGE_LENGTH == 10000
EMBEDDING_DIM == 64
NUM_LABELS == 16

(***************************************************************************)
(* JavaScript values.  A value is a record [t, v]: t is the kind of value  *)
(* and v the characters of a string (or the digits of a number).           *)
(***************************************************************************)
JsNull == [t |-> "null", v |-> <<>>]
JsUndefined == [t |-> "undefined", v |-> <<>>]
JsString(chars) == [t |-> "string", v |-> chars]
JsNumber(digits) == [t |-> "number", v |-> digits]

\* typeof x
typeOf(x) == IF x.t = "null" THEN "object" ELSE x.t

\* Unset singleton state (let x = null).
Null == [null |-> TRUE]

WhiteSpace == {" ", "\t", "\n"}

\* String.prototype.trimStart, trimEnd: the string from its first, or up to
\* its last, character that is not white space.
trimStart(s) ==
    IF \A i \in 1..Len(s) : s[i] \in WhiteSpace THEN <<>>
    ELSE SubSeq(s, CHOOSE i \in 1..Len(s) :
                       /\ s[i] \notin WhiteSpace
                       /\ \A j \in 1..(i - 1) : s[j] \in WhiteSpace,
                Len(s))

trimEnd(s) ==
    IF \A i \in 1..Len(s) : s[i] \in WhiteSpace THEN <<>>
    ELSE SubSeq(s, 1, CHOOSE i \in 1..Len(s) :
                          /\ s[i] \notin WhiteSpace
                          /\ \A j \in (i + 1)..Len(s) : s[j] \in WhiteSpace)

\* String.prototype.trim
trim(s) == trimEnd(trimStart(s))

\* String.prototype.substring(0, n)
substring0(s, n) == IF Len(s) <= n THEN s ELSE SubSeq(s, 1, n)

(***************************************************************************)
(* Errors.  The message of an Error is its sequence of words.              *)
(***************************************************************************)
NoError == <<>>
TypeErrorNull == <<"TypeError:", "Cannot", "read", "properties", "of", "null">>
TypeErrorPath == <<"TypeError:", "The", "path", "argument", "must", "be",
                   "of", "type", "string">>
LoadError(file) == <<"Failed", "to", "load", file>>

\* haystack contains needle as a contiguous run of words
Contains(haystack, needle) ==
    \E i \in 0..Len(haystack) :
        /\ i + Len(needle) <= Len(haystack)
        /\ \A j \in 1..Len(needle) : haystack[i + j] = needle[j]

(***************************************************************************)
(* sanitizeMessage(message, context = "Message"): the thrown error, or     *)
(* the returned string.                                                    *)
(***************************************************************************)
sanitizeMessage(message) ==
    IF message.t \in {"null", "undefined"}
    THEN [ok |-> FALSE, value |-> <<>>,
          error |-> <<"Message", "must", "be", "a", "non-empty", "string">>]
    ELSE IF typeOf(message) # "string"
    THEN [ok |-> FALSE, value |-> <<>>,
          error |-> <<"Message", "must", "be", "a", "string,", "got",
                      typeOf(message)>>]
    ELSE IF Len(trim(message.v)) = 0
    THEN [ok |-> FALSE, value |-> <<>>,
          error |-> <<"Message", "must", "not", "be", "empty", "or",
                      "whitespace-only">>]
    ELSE [ok |-> TRUE, error |-> NoError,
          value |-> IF Len(message.v) > MAX_MESSAGE_LENGTH
                    THEN substring0(message.v, MAX_MESSAGE_LENGTH)
                    ELSE message.v]

(***************************************************************************)
(* The validation of options.modelPath in initialize(): the thrown error,  *)
(* or NoError.                                                             *)
(***************************************************************************)
\* Mutant: the check of the trimmed string (lines 579-581) is left out.
validateModelPathNoTrim(modelPath) ==
    IF modelPath # JsUndefined
    THEN IF typeOf(modelPath) # "string"
         THEN <<"modelPath", "must", "be", "a", "string,", "got",
                typeOf(modelPath)>>
         ELSE NoError
    ELSE NoError

validateModelPath(modelPath) ==
    IF modelPath # JsUndefined
    THEN IF typeOf(modelPath) # "string"
         THEN <<"modelPath", "must", "be", "a", "string,", "got",
                typeOf(modelPath)>>
         ELSE IF trim(modelPath.v) = <<>>
         THEN <<"modelPath", "must", "not", "be", "empty">>
         ELSE NoError
    ELSE NoError

\* ToBoolean(x), as used by options.modelPath || ... and if (cachedModelPath)
truthy(x) ==
    CASE x.t \in {"null", "undefined"} -> FALSE
      [] x.t = "string" -> x.v # <<>>
      [] x.t = "number" -> x.v # <<"0">>
      [] OTHER -> TRUE

(***************************************************************************)
(* parseWeights(data).  A Float32Array is modelled by its length;          *)
(* TypedArray.prototype.slice clamps both ends to the length.              *)
(***************************************************************************)
Min(a, b) == IF a <= b THEN a ELSE b

\* data.slice(from, to).length and data.slice(from).length, data of length n
sliceLen(n, from, to) == Min(to, n) - Min(Min(from, to), n)

sliceFromLen(n, from) == n - Min(from, n)

parseWeights(n) ==
    LET dense1KernelSize == 64 * 64
        o1 == 0 + dense1KernelSize
        dense1BiasSize == 64
        o2 == o1 + dense1BiasSize
        dense2KernelSize == 64 * NUM_LABELS
        o3 == o2 + dense2KernelSize
        dense2BiasSize == NUM_LABELS
        o4 == o3 + dense2BiasSize
    IN  [embedding |-> sliceFromLen(n, o4),
         dense1Kernel |-> sliceLen(n, 0, o1),
         dense1Bias |-> sliceLen(n, o1, o2),
         dense2Kernel |-> sliceLen(n, o2, o3),
         dense2Bias |-> sliceLen(n, o3, o4)]

(***************************************************************************)
(* The model bundle as the loader may find it.  vocab.json is a list of    *)
(* words, labels.json an object with the id_to_label table, and the        *)
(* weights file a run of 32-bit floats, of which the model keeps the       *)
(* count.                                                                  *)
(***************************************************************************)
VocabFiles == { <<"", "[UNK]", "user", "unknown">> }

LabelNames ==
    <<"auth_failure", "domain_blacklisted", "geo_blocked", "greylisting",
      "invalid_address", "ip_blacklisted", "mailbox_disabled", "mailbox_full",
      "policy_blocked", "rate_limited", "relay_denied", "server_error",
      "spam_blocked", "unknown", "user_unknown", "virus_detected">>

LabelFiles == { [id_to_label |-> LabelNames] }

\* The float count the documented layout gives for a vocabulary of n words.
LayoutLen(n) == 64 * 64 + 64 + 64 * NUM_LABELS + NUM_LABELS + n * EMBEDDING_DIM

WeightFileLens ==
    UNION { { LayoutLen(Len(f)), LayoutLen(Len(f)) - 1,
              LayoutLen(Len(f)) + EMBEDDING_DIM } : f \in VocabFiles }
    \cup {0}

\* vocabMap = new Map(); vocabData.forEach((word, index) => vocabMap.set(word, index))
newVocabMap(vocabData) ==
    [map |-> [w \in { vocabData[i] : i \in 1..Len(vocabData) } |->
                CHOOSE k \in 0..(Len(vocabData) - 1) :
                    /\ vocabData[k + 1] = w
                    /\ \A j \in 0..(Len(vocabData) - 1) :
                          vocabData[j + 1] = w => j <= k]]

(***************************************************************************)
(* Inputs of the public operations.                                        *)
(***************************************************************************)
CustomModelPath == JsString(<<".", "/", "m">>)

ModelPathOptions ==
    { JsUndefined, CustomModelPath, JsNumber(<<"1">>), JsString(<<>>),
      JsString(<<" ">>) }

ValidMessage == JsString(<<"5", "5", "0", " ", "x">>)

MessageInputs ==
    { JsNull, JsUndefined, JsNumber(<<"1", "2", "3">>), JsString(<<>>),
      JsString(<<" ", "\t">>), ValidMessage }

(***************************************************************************)
(* Regular expressions.  A string is its sequence of characters.  A        *)
(* pattern is a sequence of items, matched in order from a position of the *)
(* string with the priorities of a backtracking matcher (RegExp of         *)
(* ECMAScript): an earlier start before a later one, a greedy repetition   *)
(* from its longest run down, a lazy one from its shortest up, the         *)
(* alternatives of a group from left to right.  The items:                 *)
(*   Lit(w)                 the characters w                               *)
(*   Alt(words, cap)        (w1|w2|...), captured as group cap             *)
(*   Rep(class, min, max, cap)   class{min,max}, greedy; captured as cap   *)
(*   Some(class, min, cap)  class{min,}, greedy                            *)
(*   Lazy(class, min, max)  class{min,max}?                                *)
(*   Opt(items)             (?:items)?                                     *)
(*   Bol, Wb                ^ and \b                                       *)
(* A class is a set of characters, or Dot ("." : all but line ends).       *)
(* cap = 0: not captured.                                                  *)
(***************************************************************************)
Digits == {"0", "1", "2", "3", "4", "5", "6", "7", "8", "9"}

UpperCase == <<"A", "B", "C", "D", "E", "F", "G", "H", "I", "J", "K", "L", "M",
               "N", "O", "P", "Q", "R", "S", "T", "U", "V", "W", "X", "Y", "Z">>

LowerCase == <<"a", "b", "c", "d", "e", "f", "g", "h", "i", "j", "k", "l", "m",
               "n", "o", "p", "q", "r", "s", "t", "u", "v", "w", "x", "y", "z">>

\* \w
WordChars ==
    Digits \cup {"_"} \cup { UpperCase[i] : i \in 1..26 }
           \cup { LowerCase[i] : i \in 1..26 }

\* \s
Spaces == {" ", "\t", "\n", "\r", "\f"}

LineEnds == {"\n", "\r"}

\* String.prototype.toLowerCase, one character; matching with the i flag is
\* matching the lower-case string against the lower-case pattern.
lowerChar(c) ==
    IF \E i \in 1..26 : UpperCase[i] = c
    THEN LowerCase[CHOOSE i \in 1..26 : UpperCase[i] = c]
    ELSE c

\* (\o <<>> makes the result a sequence value)
toLowerCase(s) == [i \in 1..Len(s) |-> lowerChar(s[i])] \o <<>>

Dot == [dot |-> TRUE]

inClass(c, class) == IF class = Dot THEN c \notin LineEnds ELSE c \in class.set

Class(set) == [set |-> set]

Lit(w) == [k |-> "lit", w |-> w]
Alt(words, cap) == [k |-> "alt", words |-> words, cap |-> cap]
Rep(class, min, max, cap) ==
    [k |-> "rep", class |-> class, min |-> min, max |-> max, bounded |-> TRUE,
     lazy |-> FALSE, cap |-> cap]
Some(class, min, cap) ==
    [k |-> "rep", class |-> class, min |-> min, max |-> 0, bounded |-> FALSE,
     lazy |-> FALSE, cap |-> cap]
Lazy(class, min, max) ==
    [k |-> "rep", class |-> class, min |-> min, max |-> max, bounded |-> TRUE,
     lazy |-> TRUE, cap |-> 0]
Opt(items) == [k |-> "opt", items |-> items]
Bol == [k |-> "bol"]
Wb == [k |-> "wb"]

\* The groups of a match: the captured text of groups 1 to 3 (<<>>: none).
NoGroups == <<<<>>, <<>>, <<>>>>

NoMatch == [ok |-> FALSE, groups |-> NoGroups]

capture(groups, cap, text) ==
    IF cap = 0 THEN groups ELSE [groups EXCEPT ![cap] = text]

\* s has the characters w at position i
startsWithAt(s, i, w) ==
    /\ i + Len(w) - 1 <= Len(s)
    /\ \A j \in 1..Len(w) : s[i + j - 1] = w[j]

\* \b at position i: just one of the characters around it is a word character
atWordBoundary(s, i) ==
    LET before == i > 1 /\ s[i - 1] \in WordChars
        after == i <= Len(s) /\ s[i] \in WordChars
    IN  before # after

\* The length of the run of characters of class from position i, at most
\* limit.
runLength(s, i, class, limit) ==
    LET last == IF i + limit - 1 <= Len(s) THEN i + limit - 1 ELSE Len(s)
        stops == { j \in i..last : ~inClass(s[j], class) }
    IN  IF stops = {} THEN last - i + 1
        ELSE (CHOOSE j \in stops : \A m \in stops : j <= m) - i

SetMax(S) == CHOOSE x \in S : \A y \in S : y <= x
SetMin(S) == CHOOSE x \in S : \A y \in S : x <= y

\* The match of the items re from position i of s, or NoMatch.
RECURSIVE matchHere(_, _, _, _)
matchHere(re, s, i, groups) ==
    IF Len(re) = 0 THEN [ok |-> TRUE, groups |-> groups]
    ELSE
    LET item == Head(re)
        rest == Tail(re)
    IN  CASE item.k = "bol" ->
               IF i = 1 THEN matchHere(rest, s, i, groups) ELSE NoMatch
          [] item.k = "wb" ->
               IF atWordBoundary(s, i) THEN matchHere(rest, s, i, groups)
               ELSE NoMatch
          [] item.k = "lit" ->
               IF startsWithAt(s, i, item.w)
               THEN matchHere(rest, s, i + Len(item.w), groups)
               ELSE NoMatch
          [] item.k = "alt" ->
               LET with(j) ==
                       matchHere(rest, s, i + Len(item.words[j]),
                                 capture(groups, item.cap, item.words[j]))
                   good == { j \in 1..Len(item.words) :
                               /\ startsWithAt(s, i, item.words[j])
                               /\ with(j).ok }
               IN  IF good = {} THEN NoMatch ELSE with(SetMin(good))
          [] item.k = "rep" ->
               LET run == runLength(s, i, item.class,
                                    IF item.bounded THEN item.max
                                    ELSE Len(s))
                   with(c) ==
                       matchHere(rest, s, i + c,
                                 capture(groups, item.cap,
                                         SubSeq(s, i, i + c - 1)))
                   good == { c \in item.min..run : with(c).ok }
               IN  IF good = {} THEN NoMatch
                   ELSE IF item.lazy THEN with(SetMin(good))
                   ELSE with(SetMax(good))
          [] item.k = "opt" ->
               LET with == matchHere(item.items \o rest, s, i, groups)
               IN  IF with.ok THEN with ELSE matchHere(rest, s, i, groups)

\* String.prototype.match(re) without the g flag: the leftmost match.
match(s, re) ==
    LET starts == { i \in 1..(Len(s) + 1) : matchHere(re, s, i, NoGroups).ok }
    IN  IF starts = {} THEN NoMatch
        ELSE matchHere(re, s, SetMin(starts), NoGroups)

\* RegExp.prototype.test
test(re, s) == match(s, re).ok

(***************************************************************************)
(* The rule tables and the exported helpers, lines 20-320.  A label, an    *)
(* action and a blocklist name are strings of the tables, written as such; *)
(* NoLabel stands for null where a label is expected.                      *)
(***************************************************************************)
NoLabel == "(null)"

ACTION_MAP ==
    [ user_unknown |-> "remove",
      invalid_address |-> "remove",
      mailbox_disabled |-> "remove",
      greylisting |-> "retry",
      rate_limited |-> "retry",
      server_error |-> "retry",
      mailbox_full |-> "retry",
      ip_blacklisted |-> "retry_different_ip",
      domain_blacklisted |-> "fix_configuration",
      auth_failure |-> "fix_configuration",
      spam_blocked |-> "review",
      policy_blocked |-> "review",
      virus_detected |-> "remove_content",
      geo_blocked |-> "retry_different_ip",
      relay_denied |-> "fix_configuration",
      unknown |-> "review" ]

\* The properties an object literal inherits from Object.prototype; each is
\* a function (__proto__: the prototype object), written here by its name.
ObjectPrototype ==
    [ constructor |-> "[Function: Object]",
      toString |-> "[Function: toString]",
      toLocaleString |-> "[Function: toLocaleString]",
      valueOf |-> "[Function: valueOf]",
      hasOwnProperty |-> "[Function: hasOwnProperty]",
      isPrototypeOf |-> "[Function: isPrototypeOf]",
      propertyIsEnumerable |-> "[Function: propertyIsEnumerable]",
      __defineGetter__ |-> "[Function: __defineGetter__]",
      __defineSetter__ |-> "[Function: __defineSetter__]",
      __lookupGetter__ |-> "[Function: __lookupGetter__]",
      __lookupSetter__ |-> "[Function: __lookupSetter__]",
      __proto__ |-> "[Object: null prototype]" ]

\* SMTP_CODE_MAP: the entries, key and label.
SMTP_CODE_MAP ==
    << <<<<"5", ".", "1", ".", "1">>, "user_unknown">>,
       <<<<"5", ".", "1", ".", "2">>, "invalid_address">>,
       <<<<"5", ".", "1", ".", "3">>, "invalid_address">>,
       <<<<"5", ".", "1", ".", "6">>, "invalid_address">>,
       <<<<"4", ".", "1", ".", "1">>, "user_unknown">>,
       <<<<"5", ".", "2", ".", "0">>, "user_unknown">>,
       <<<<"5", ".", "2", ".", "1">>, "mailbox_disabled">>,
       <<<<"5", ".", "2", ".", "2">>, "mailbox_full">>,
       <<<<"5", ".", "2", ".", "3">>, "rate_limited">>,
       <<<<"4", ".", "2", ".", "0">>, "greylisting">>,
       <<<<"4", ".", "2", ".", "1">>, "rate_limited">>,
       <<<<"4", ".", "2", ".", "2">>, "mailbox_full">>,
       <<<<"5", ".", "3", ".", "0">>, "server_error">>,
       <<<<"5", ".", "3", ".", "1">>, "server_error">>,
       <<<<"5", ".", "3", ".", "2">>, "server_error">>,
       <<<<"4", ".", "3", ".", "0">>, "server_error">>,
       <<<<"4", ".", "3", ".", "1">>, "server_error">>,
       <<<<"4", ".", "3", ".", "2">>, "server_error">>,
       <<<<"5", ".", "4", ".", "1">>, "user_unknown">>,
       <<<<"5", ".", "4", ".", "4">>, "server_error">>,
       <<<<"4", ".", "4", ".", "1">>, "server_error">>,
       <<<<"4", ".", "4", ".", "2">>, "server_error">>,
       <<<<"5", ".", "5", ".", "0">>, "user_unknown">>,
       <<<<"5", ".", "5", ".", "1">>, "invalid_address">>,
       <<<<"5", ".", "5", ".", "2">>, "invalid_address">>,
       <<<<"5", ".", "6", ".", "1">>, "policy_blocked">>,
       <<<<"5", ".", "6", ".", "2">>, "policy_blocked">>,
       <<<<"5", ".", "7", ".", "0">>, "virus_detected">>,
       <<<<"5", ".", "7", ".", "1">>, "policy_blocked">>,
       <<<<"5", ".", "7", ".", "2">>, "relay_denied">>,
       <<<<"5", ".", "7", ".", "8">>, "auth_failure">>,
       <<<<"5", ".", "7", ".", "9">>, "auth_failure">>,
       <<<<"5", ".", "7", ".", "2", "3">>, "auth_failure">>,
       <<<<"5", ".", "7", ".", "2", "5">>, "auth_failure">>,
       <<<<"5", ".", "7", ".", "2", "6">>, "auth_failure">>,
       <<<<"4", ".", "7", ".", "0">>, "rate_limited">>,
       <<<<"4", ".", "7", ".", "1">>, "rate_limited">>,
       <<<<"4", ".", "7", ".", "3">>, "rate_limited">>,
       <<<<"4", ".", "7", ".", "2", "8">>, "rate_limited">>,
       <<<<"4", ".", "7", ".", "3", "2">>, "rate_limited">>,
       <<<<"4", ".", "7", ".", "6", "5", "0">>, "rate_limited">>,
       <<<<"4", ".", "7", ".", "6", "5", "1">>, "rate_limited">>,
       <<<<"5", ".", "2", ".", "1", "2", "1">>, "rate_limited">>,
       <<<<"5", ".", "2", ".", "1", "2", "2">>, "rate_limited">> >>

\* SMTP_MAIN_CODE_MAP: the entries, key (the number as a property name) and
\* label.
SMTP_MAIN_CODE_MAP ==
    << <<<<"4", "2", "1">>, "greylisting">>,
       <<<<"4", "5", "0">>, "greylisting">>,
       <<<<"4", "5", "1">>, "server_error">>,
       <<<<"4", "5", "2">>, "server_error">>,
       <<<<"5", "0", "0">>, "invalid_address">>,
       <<<<"5", "0", "1">>, "invalid_address">>,
       <<<<"5", "0", "2">>, "server_error">>,
       <<<<"5", "0", "3">>, "server_error">>,
       <<<<"5", "0", "4">>, "server_error">>,
       <<<<"5", "5", "0">>, "user_unknown">>,
       <<<<"5", "5", "1">>, "relay_denied">>,
       <<<<"5", "5", "2">>, "mailbox_full">>,
       <<<<"5", "5", "3">>, "invalid_address">>,
       <<<<"5", "5", "4">>, "policy_blocked">>,
       <<<<"5", "7", "1">>, "spam_blocked">> >>

\* table[key] for a table of entries: the label, or NoLabel for undefined.
\* The keys looked up are digits and dots, never a name that Object.prototype
\* defines.
lookup(table, key) ==
    IF \E e \in 1..Len(table) : table[e][1] = key
    THEN table[CHOOSE e \in 1..Len(table) : table[e][1] = key][2]
    ELSE NoLabel

CODE_FALLBACK_THRESHOLD == 500  \* 0.5, scores being in thousandths

\* Mutant: the pattern without its ^.
MainCodePatternAnywhere ==
    <<Rep(Class(Digits), 3, 3, 1), Rep(Class(Spaces \cup {"-"}), 1, 1, 0)>>

\* /^(\d{3})[\s-]/
MainCodePattern ==
    <<Bol, Rep(Class(Digits), 3, 3, 1), Rep(Class(Spaces \cup {"-"}), 1, 1, 0)>>

\* /\b([245])\.(\d{1,3})\.(\d{1,3})\b/
ExtendedCodePattern ==
    <<Wb, Rep(Class({"2", "4", "5"}), 1, 1, 1), Lit(<<".">>),
      Rep(Class(Digits), 1, 3, 2), Lit(<<".">>), Rep(Class(Digits), 1, 3, 3),
      Wb>>

\* extractSmtpCodes(message): mainCode and extendedCode, each null or a string
extractSmtpCodes(message) ==
    LET mainMatch == match(message, MainCodePattern)
        extMatch == match(message, ExtendedCodePattern)
    IN  [mainCode |-> IF mainMatch.ok THEN JsString(mainMatch.groups[1])
                      ELSE JsNull,
         extendedCode |->
             IF extMatch.ok
             THEN JsString(extMatch.groups[1] \o <<".">> \o extMatch.groups[2]
                           \o <<".">> \o extMatch.groups[3])
             ELSE JsNull]

\* .{0,50}?
Gap == Lazy(Dot, 0, 50)

TEXT_PATTERN_FALLBACKS ==
    <<
      \* /doesn't have a .{0,50}? account/i
      [pattern |-> <<Lit(<<"d", "o", "e", "s", "n", "'", "t", " ", "h", "a",
        "v", "e", " ", "a", " ">>), Gap, Lit(<<" ", "a", "c", "c", "o", "u",
        "n", "t">>)>>, label |-> "user_unknown"],
      \* /user doesn't have .{0,50}? account/i
      [pattern |-> <<Lit(<<"u", "s", "e", "r", " ", "d", "o", "e", "s", "n",
        "'", "t", " ", "h", "a", "v", "e", " ">>), Gap, Lit(<<" ", "a", "c",
        "c", "o", "u", "n", "t">>)>>, label |-> "user_unknown"],
      \* /not a valid recipient/i
      [pattern |-> <<Lit(<<"n", "o", "t", " ", "a", " ", "v", "a", "l", "i",
        "d", " ", "r", "e", "c", "i", "p", "i", "e", "n", "t">>)>>, label |->
        "user_unknown"],
      \* /no such user/i
      [pattern |-> <<Lit(<<"n", "o", " ", "s", "u", "c", "h", " ", "u", "s",
        "e", "r">>)>>, label |-> "user_unknown"],
      \* /user unknown/i
      [pattern |-> <<Lit(<<"u", "s", "e", "r", " ", "u", "n", "k", "n", "o",
        "w", "n">>)>>, label |-> "user_unknown"],
      \* /mailbox not found/i
      [pattern |-> <<Lit(<<"m", "a", "i", "l", "b", "o", "x", " ", "n", "o",
        "t", " ", "f", "o", "u", "n", "d">>)>>, label |-> "user_unknown"],
      \* /recipient rejected/i
      [pattern |-> <<Lit(<<"r", "e", "c", "i", "p", "i", "e", "n", "t", " ",
        "r", "e", "j", "e", "c", "t", "e", "d">>)>>, label |->
        "user_unknown"],
      \* /sender is unauthenticated/i
      [pattern |-> <<Lit(<<"s", "e", "n", "d", "e", "r", " ", "i", "s", " ",
        "u", "n", "a", "u", "t", "h", "e", "n", "t", "i", "c", "a", "t", "e",
        "d">>)>>, label |-> "auth_failure"],
      \* /requires .{0,50}? authenticate/i
      [pattern |-> <<Lit(<<"r", "e", "q", "u", "i", "r", "e", "s", " ">>),
        Gap, Lit(<<" ", "a", "u", "t", "h", "e", "n", "t", "i", "c", "a", "t",
        "e">>)>>, label |-> "auth_failure"]
    >>

\* getTextBasedFallback(message): the label of the first pattern that
\* matches, or null
getTextBasedFallback(message) ==
    LET found == { k \in 1..Len(TEXT_PATTERN_FALLBACKS) :
                      test(TEXT_PATTERN_FALLBACKS[k].pattern,
                           toLowerCase(message)) }
    IN  IF found = {} THEN NoLabel
        ELSE TEXT_PATTERN_FALLBACKS[SetMin(found)].label

\* Mutant: the SMTP codes are tried before the text patterns.
getCodeBasedFallbackCodesFirst(message) ==
    LET textFallback == getTextBasedFallback(message)
        codes == extractSmtpCodes(message)
    IN  IF /\ codes.extendedCode # JsNull
           /\ lookup(SMTP_CODE_MAP, codes.extendedCode.v) # NoLabel
        THEN lookup(SMTP_CODE_MAP, codes.extendedCode.v)
        ELSE IF /\ codes.mainCode # JsNull
                /\ lookup(SMTP_MAIN_CODE_MAP, codes.mainCode.v) # NoLabel
        THEN lookup(SMTP_MAIN_CODE_MAP, codes.mainCode.v)
        ELSE textFallback

\* getCodeBasedFallback(message)
getCodeBasedFallback(message) ==
    LET textFallback == getTextBasedFallback(message)
        codes == extractSmtpCodes(message)
    IN  IF textFallback # NoLabel THEN textFallback
        ELSE IF /\ codes.extendedCode # JsNull
                /\ lookup(SMTP_CODE_MAP, codes.extendedCode.v) # NoLabel
        THEN lookup(SMTP_CODE_MAP, codes.extendedCode.v)
        ELSE IF /\ codes.mainCode # JsNull
                /\ lookup(SMTP_MAIN_CODE_MAP, codes.mainCode.v) # NoLabel
        THEN lookup(SMTP_MAIN_CODE_MAP, codes.mainCode.v)
        ELSE NoLabel

\* (second|minute|hour|min|sec|hr) and (second|minute|hour)
RetryUnits == <<<<"s", "e", "c", "o", "n", "d">>, <<"m", "i", "n", "u", "t",
    "e">>, <<"h", "o", "u", "r">>, <<"m", "i", "n">>, <<"s", "e", "c">>,
    <<"h", "r">>>>

RetryLongUnits == <<<<"s", "e", "c", "o", "n", "d">>, <<"m", "i", "n", "u",
    "t", "e">>, <<"h", "o", "u", "r">>>>

Ws1 == Some(Class(Spaces), 1, 0)       \* \s+
Ws0 == Some(Class(Spaces), 0, 0)       \* \s*
Number == Some(Class(Digits), 1, 1)    \* (\d+)
Unit == Alt(RetryUnits, 2)             \* (second|minute|hour|min|sec|hr)
LongUnit == Alt(RetryLongUnits, 2)     \* (second|minute|hour)
OptS == Rep(Class({"s"}), 0, 1, 0)     \* s?
OptD == Rep(Class({"d"}), 0, 1, 0)     \* d?

\* RETRY_PATTERNS; in each of them the unit is group 2.
RETRY_PATTERNS ==
    <<
      \* /try\s+again\s+in\s+(\d+)\s*(second|minute|hour|min|sec|hr)s?/i
      [pattern |-> <<Lit(<<"t", "r", "y">>), Ws1, Lit(<<"a", "g", "a", "i",
        "n">>), Ws1, Lit(<<"i", "n">>), Ws1, Number, Ws0, Unit, OptS>>, unit
        |-> 2],
      \* /retry\s+in\s+(\d+)\s*(second|minute|hour|min|sec|hr)s?/i
      [pattern |-> <<Lit(<<"r", "e", "t", "r", "y">>), Ws1, Lit(<<"i", "n">>),
        Ws1, Number, Ws0, Unit, OptS>>, unit |-> 2],
      \* /wait\s+(\d+)\s*(second|minute|hour|min|sec|hr)s?/i
      [pattern |-> <<Lit(<<"w", "a", "i", "t">>), Ws1, Number, Ws0, Unit,
        OptS>>, unit |-> 2],
      \* /greylisted?\s+(?:for\s+)?(\d+)\s*(second|minute|hour|min|sec|hr)s?/i
      [pattern |-> <<Lit(<<"g", "r", "e", "y", "l", "i", "s", "t", "e">>),
        OptD, Ws1, Opt(<<Lit(<<"f", "o", "r">>), Ws1>>), Number, Ws0, Unit,
        OptS>>, unit |-> 2],
      \* /delayed?\s+(?:for\s+)?(\d+)\s*(second|minute|hour|min|sec|hr)s?/i
      [pattern |-> <<Lit(<<"d", "e", "l", "a", "y", "e">>), OptD, Ws1,
        Opt(<<Lit(<<"f", "o", "r">>), Ws1>>), Number, Ws0, Unit, OptS>>, unit
        |-> 2],
      \* /come\s+back\s+in\s+(\d+)\s*(second|minute|hour|min|sec|hr)s?/i
      [pattern |-> <<Lit(<<"c", "o", "m", "e">>), Ws1, Lit(<<"b", "a", "c",
        "k">>), Ws1, Lit(<<"i", "n">>), Ws1, Number, Ws0, Unit, OptS>>, unit
        |-> 2],
      \* /after\s+(\d+)\s*(second|minute|hour|min|sec|hr)s?/i
      [pattern |-> <<Lit(<<"a", "f", "t", "e", "r">>), Ws1, Number, Ws0, Unit,
        OptS>>, unit |-> 2],
      \* /\b(\d+)\s*(second|minute|hour)s?\b/i
      [pattern |-> <<Wb, Number, Ws0, LongUnit, OptS, Wb>>, unit |-> 2],
      \* /too\s+many.{0,50}?(\d+)\s*(second|minute|hour|min|sec|hr)s?/i
      [pattern |-> <<Lit(<<"t", "o", "o">>), Ws1, Lit(<<"m", "a", "n", "y">>),
        Gap, Number, Ws0, Unit, OptS>>, unit |-> 2],
      \* /greylist.{0,50}?(\d+)\s*(second|minute|hour|min|sec|hr)s?/i
      [pattern |-> <<Lit(<<"g", "r", "e", "y", "l", "i", "s", "t">>), Gap,
        Number, Ws0, Unit, OptS>>, unit |-> 2]
    >>

\* parseInt(value, 10), value a run of digits
RECURSIVE parseInt(_)
parseInt(value) ==
    IF value = <<>> THEN 0
    ELSE 10 * parseInt(SubSeq(value, 1, Len(value) - 1))
         + (CHOOSE d \in 0..9 :
               <<"0", "1", "2", "3", "4", "5", "6", "7", "8", "9">>[d + 1]
                   = value[Len(value)])

\* toSeconds(value, unit)
toSeconds(value, unit) ==
    LET num == parseInt(value)
        u == toLowerCase(unit)
    IN  IF startsWithAt(u, 1, <<"s", "e", "c">>) \/ u = <<"s">> THEN num
        ELSE IF startsWithAt(u, 1, <<"m", "i", "n">>) \/ u = <<"m">>
        THEN num * 60
        ELSE IF \/ startsWithAt(u, 1, <<"h", "o", "u", "r">>)
                \/ u = <<"h", "r">> \/ u = <<"h">>
        THEN num * 3600
        ELSE num

\* A number of seconds, as extractRetryTiming returns it.
Seconds(n) == [t |-> "number", n |-> n]

\* Mutant: the upper end of the range is not checked.
retrySecondsNoCap(message, k) ==
    LET m == match(toLowerCase(message), RETRY_PATTERNS[k].pattern)
        unit == RETRY_PATTERNS[k].unit
        seconds == toSeconds(m.groups[1],
                             IF m.groups[unit] # <<>> THEN m.groups[unit]
                             ELSE <<"s", "e", "c", "o", "n", "d", "s">>)
    IN  IF m.ok /\ m.groups[1] # <<>> /\ seconds >= 1 THEN seconds ELSE 0

\* The seconds that pattern k gives for the message: 0 when the pattern does
\* not match or its duration is out of range (the loop goes on).
retrySeconds(message, k) ==
    LET m == match(toLowerCase(message), RETRY_PATTERNS[k].pattern)
        unit == RETRY_PATTERNS[k].unit
        seconds == toSeconds(m.groups[1],
                             IF m.groups[unit] # <<>> THEN m.groups[unit]
                             ELSE <<"s", "e", "c", "o", "n", "d", "s">>)
    IN  IF m.ok /\ m.groups[1] # <<>> /\ seconds >= 1 /\ seconds <= 86400
        THEN seconds
        ELSE 0

\* extractRetryTiming(message): null, or the seconds of the first pattern
\* that gives a duration in range
extractRetryTiming(message) ==
    LET found == { k \in 1..Len(RETRY_PATTERNS) : retrySeconds(message, k) # 0 }
    IN  IF found = {} THEN JsNull
        ELSE Seconds(retrySeconds(message, SetMin(found)))

BLOCKLIST_PATTERNS ==
    <<
      \* /spamhaus\.org/i
      [pattern |-> <<Lit(<<"s", "p", "a", "m", "h", "a", "u", "s", ".", "o",
        "r", "g">>)>>, name |-> "Spamhaus", type |-> "ip"],
      \* /\bsbl\b/i
      [pattern |-> <<Wb, Lit(<<"s", "b", "l">>), Wb>>, name |->
        "Spamhaus SBL", type |-> "ip"],
      \* /\bxbl\b/i
      [pattern |-> <<Wb, Lit(<<"x", "b", "l">>), Wb>>, name |->
        "Spamhaus XBL", type |-> "ip"],
      \* /\bpbl\b/i
      [pattern |-> <<Wb, Lit(<<"p", "b", "l">>), Wb>>, name |->
        "Spamhaus PBL", type |-> "ip"],
      \* /\bdbl\.spamhaus/i
      [pattern |-> <<Wb, Lit(<<"d", "b", "l", ".", "s", "p", "a", "m", "h",
        "a", "u", "s">>)>>, name |-> "Spamhaus DBL", type |-> "domain"],
      \* /\bzen\.spamhaus/i
      [pattern |-> <<Wb, Lit(<<"z", "e", "n", ".", "s", "p", "a", "m", "h",
        "a", "u", "s">>)>>, name |-> "Spamhaus ZEN", type |-> "ip"],
      \* /barracuda/i
      [pattern |-> <<Lit(<<"b", "a", "r", "r", "a", "c", "u", "d", "a">>)>>,
        name |-> "Barracuda", type |-> "ip"],
      \* /b\.barracudacentral/i
      [pattern |-> <<Lit(<<"b", ".", "b", "a", "r", "r", "a", "c", "u", "d",
        "a", "c", "e", "n", "t", "r", "a", "l">>)>>, name |-> "Barracuda",
        type |-> "ip"],
      \* /sorbs\.net/i
      [pattern |-> <<Lit(<<"s", "o", "r", "b", "s", ".", "n", "e", "t">>)>>,
        name |-> "SORBS", type |-> "ip"],
      \* /dnsbl\.sorbs/i
      [pattern |-> <<Lit(<<"d", "n", "s", "b", "l", ".", "s", "o", "r", "b",
        "s">>)>>, name |-> "SORBS", type |-> "ip"],
      \* /spamcop\.net/i
      [pattern |-> <<Lit(<<"s", "p", "a", "m", "c", "o", "p", ".", "n", "e",
        "t">>)>>, name |-> "SpamCop", type |-> "ip"],
      \* /uribl\.com/i
      [pattern |-> <<Lit(<<"u", "r", "i", "b", "l", ".", "c", "o", "m">>)>>,
        name |-> "URIBL", type |-> "uri"],
      \* /multi\.uribl/i
      [pattern |-> <<Lit(<<"m", "u", "l", "t", "i", ".", "u", "r", "i", "b",
        "l">>)>>, name |-> "URIBL", type |-> "uri"],
      \* /cloudmark/i
      [pattern |-> <<Lit(<<"c", "l", "o", "u", "d", "m", "a", "r", "k">>)>>,
        name |-> "Cloudmark", type |-> "ip"],
      \* /proofpoint/i
      [pattern |-> <<Lit(<<"p", "r", "o", "o", "f", "p", "o", "i", "n",
        "t">>)>>, name |-> "Proofpoint", type |-> "ip"],
      \* /mimecast/i
      [pattern |-> <<Lit(<<"m", "i", "m", "e", "c", "a", "s", "t">>)>>, name
        |-> "Mimecast", type |-> "ip"],
      \* /\bS3150\b/i
      [pattern |-> <<Wb, Lit(<<"s", "3", "1", "5", "0">>), Wb>>, name |->
        "Microsoft Blocklist", type |-> "ip"],
      \* /invaluement/i
      [pattern |-> <<Lit(<<"i", "n", "v", "a", "l", "u", "e", "m", "e", "n",
        "t">>)>>, name |-> "Invaluement", type |-> "ip"],
      \* /hostkarma/i
      [pattern |-> <<Lit(<<"h", "o", "s", "t", "k", "a", "r", "m", "a">>)>>,
        name |-> "Hostkarma", type |-> "ip"],
      \* /trend\s*micro/i
      [pattern |-> <<Lit(<<"t", "r", "e", "n", "d">>), Ws0, Lit(<<"m", "i",
        "c", "r", "o">>)>>, name |-> "Trend Micro", type |-> "ip"],
      \* /\brbl\b/i
      [pattern |-> <<Wb, Lit(<<"r", "b", "l">>), Wb>>, name |-> "RBL", type
        |-> "ip"],
      \* /\bdnsbl\b/i
      [pattern |-> <<Wb, Lit(<<"d", "n", "s", "b", "l">>), Wb>>, name |->
        "DNSBL", type |-> "ip"],
      \* /blacklist/i
      [pattern |-> <<Lit(<<"b", "l", "a", "c", "k", "l", "i", "s", "t">>)>>,
        name |-> "Blocklist", type |-> "ip"],
      \* /blocklist/i
      [pattern |-> <<Lit(<<"b", "l", "o", "c", "k", "l", "i", "s", "t">>)>>,
        name |-> "Blocklist", type |-> "ip"]
    >>

\* seq.filter(keep), keep a set of indices
filterSeq(seq, keep) ==
    LET kept == { i \in 1..Len(seq) : i \in keep }
        nth(k) == CHOOSE i \in kept :
                      Cardinality({ j \in kept : j <= i }) = k
    IN  [k \in 1..Cardinality(kept) |-> seq[nth(k)]] \o <<>>

GenericBlocklists == {"RBL", "DNSBL", "Blocklist"}

\* Mutant: the generic entries are not filtered out.
identifyBlocklistKeepGeneric(message) ==
    LET lower == toLowerCase(message)
        matched == { k \in 1..Len(BLOCKLIST_PATTERNS) :
                        test(BLOCKLIST_PATTERNS[k].pattern, lower) }
        pushed == { k \in matched :
                      \A j \in matched :
                         BLOCKLIST_PATTERNS[j].name = BLOCKLIST_PATTERNS[k].name
                         => k <= j }
        entries == [k \in 1..Len(BLOCKLIST_PATTERNS) |->
                      [name |-> BLOCKLIST_PATTERNS[k].name,
                       type |-> BLOCKLIST_PATTERNS[k].type]]
        found == filterSeq(entries, pushed)
    IN  IF Len(found) = 0 THEN JsNull
        ELSE IF Len(found) = 1 THEN found[1] ELSE [lists |-> found]

\* Mutant: an entry is pushed for every signature that matches, whether its
\* name is found already or not.
identifyBlocklistNoDedup(message) ==
    LET lower == toLowerCase(message)
        matched == { k \in 1..Len(BLOCKLIST_PATTERNS) :
                        test(BLOCKLIST_PATTERNS[k].pattern, lower) }
        entries == [k \in 1..Len(BLOCKLIST_PATTERNS) |->
                      [name |-> BLOCKLIST_PATTERNS[k].name,
                       type |-> BLOCKLIST_PATTERNS[k].type]]
        found == filterSeq(entries, matched)
        specific == filterSeq(entries,
                       { k \in matched :
                            BLOCKLIST_PATTERNS[k].name \notin GenericBlocklists })
    IN  IF Len(found) = 0 THEN JsNull
        ELSE IF Len(specific) > 0
        THEN IF Len(specific) = 1 THEN specific[1] ELSE [lists |-> specific]
        ELSE found[1]

\* identifyBlocklist(message): null, one {name, type}, or {lists: [...]}
identifyBlocklist(message) ==
    LET lower == toLowerCase(message)
        matched == { k \in 1..Len(BLOCKLIST_PATTERNS) :
                        test(BLOCKLIST_PATTERNS[k].pattern, lower) }
        \* found.push({name, type}) unless an entry of that name is found
        pushed == { k \in matched :
                      \A j \in matched :
                         BLOCKLIST_PATTERNS[j].name = BLOCKLIST_PATTERNS[k].name
                         => k <= j }
        entry(k) == [name |-> BLOCKLIST_PATTERNS[k].name,
                     type |-> BLOCKLIST_PATTERNS[k].type]
        entries == [k \in 1..Len(BLOCKLIST_PATTERNS) |-> entry(k)]
        found == filterSeq(entries, pushed)
        specific == filterSeq(entries,
                       { k \in pushed :
                            BLOCKLIST_PATTERNS[k].name \notin GenericBlocklists })
    IN  IF Len(found) = 0 THEN JsNull
        ELSE IF Len(specific) > 0
        THEN IF Len(specific) = 1 THEN specific[1] ELSE [lists |-> specific]
        ELSE found[1]

\* getAction(category): ACTION_MAP[category] || "review".  The property is
\* looked up in the object and then in Object.prototype; every value found
\* is truthy.
getAction(category) ==
    IF category \in DOMAIN ACTION_MAP THEN ACTION_MAP[category]
    ELSE IF category \in DOMAIN ObjectPrototype THEN ObjectPrototype[category]
    ELSE "review"


(***************************************************************************)
(* Inputs of the exported helpers: messages put together from parts, so    *)
(* that every branch of a helper is taken by some message.                 *)
(***************************************************************************)
\* SMTP replies: lead, main code, separator, extended code, text
CodeLeads ==
    { <<>>, <<" ">> }

CodeMains ==
    { <<"5", "5", "0">>, <<"5", "5">>, <<"5", "5", "0", "1">>, <<"4", "2",
      "1">>, <<"9", "9", "9">>, <<>> }

CodeSeparators ==
    { <<" ">>, <<"-">>, <<":">> }

CodeExtendeds ==
    { <<"5", ".", "1", ".", "1">>, <<"4", ".", "7", ".", "6", "5", "0">>,
      <<"5", ".", "1", ".", "1", "2", "3", "4">>, <<"1", "5", ".", "1", ".",
      "1">>, <<"3", ".", "1", ".", "1">>, <<"5", ".", "9", ".", "9">>, <<>> }

CodeTexts ==
    { <<>>, <<" ", "U", "s", "e", "r", " ", "U", "n", "k", "n", "o", "w",
      "n">>, <<" ", "x", " ", "4", "2", "1", " ", "4", ".", "2", ".", "0">>,
      <<" ", "s", "e", "n", "d", "e", "r", " ", "i", "s", " ", "u", "n", "a",
      "u", "t", "h", "e", "n", "t", "i", "c", "a", "t", "e", "d", ";", " ",
      "n", "o", " ", "s", "u", "c", "h", " ", "u", "s", "e", "r">>, <<" ",
      "d", "o", "e", "s", "n", "'", "t", " ", "h", "a", "v", "e", " ", "a",
      " ", "y", "a", "h", "o", "o", " ", "a", "c", "c", "o", "u", "n", "t">>,
      <<" ", "R", "e", "q", "u", "i", "r", "e", "s", " ", "y", "o", "u", " ",
      "t", "o", " ", "a", "u", "t", "h", "e", "n", "t", "i", "c", "a", "t",
      "e">> }

CodeMessages ==
    { lead \o main \o separator \o extended \o text :
        lead \in CodeLeads, main \in CodeMains, separator \in CodeSeparators,
        extended \in CodeExtendeds, text \in CodeTexts }

\* Retry advice: phrase, number, gap, unit
RetryPhrases ==
    { <<"T", "r", "y", " ", "a", "g", "a", "i", "n", " ", "i", "n", " ">>,
      <<"r", "e", "t", "r", "y", " ", "i", "n", " ">>, <<"w", "a", "i", "t",
      " ">>, <<"g", "r", "e", "y", "l", "i", "s", "t", "e", "d", " ", "f",
      "o", "r", " ">>, <<"d", "e", "l", "a", "y", "e", "d", " ">>, <<"c", "o",
      "m", "e", " ", "b", "a", "c", "k", " ", "i", "n", " ">>, <<"a", "f",
      "t", "e", "r", " ">>, <<"t", "o", "o", " ", "m", "a", "n", "y", " ",
      "c", "o", "n", "n", "e", "c", "t", "i", "o", "n", "s", ",", " ">>,
      <<"g", "r", "e", "y", "l", "i", "s", "t", ":", " ">> }

RetryNumbers ==
    { <<"0">>, <<"1">>, <<"5">>, <<"2", "5">>, <<"1", "4", "4", "1">>, <<"8",
      "6", "4", "0", "0">>, <<"8", "6", "4", "0", "1">>, <<"1", "0", "0", "0",
      "0", "0">> }

RetryGaps ==
    { <<>>, <<" ">> }

RetryUnitWords ==
    { <<"s">>, <<"s", "e", "c">>, <<"s", "e", "c", "o", "n", "d">>, <<"s",
      "e", "c", "o", "n", "d", "s">>, <<"m">>, <<"m", "i", "n">>, <<"m", "i",
      "n", "u", "t", "e">>, <<"m", "i", "n", "u", "t", "e", "s">>, <<"h">>,
      <<"h", "r">>, <<"h", "o", "u", "r">>, <<"h", "o", "u", "r", "s">>,
      <<"H", "o", "u", "r", "s">>, <<"d", "a", "y", "s">> }

retryMessage(phrase, number, gap, unit) == phrase \o number \o gap \o unit

RetryMessages ==
    { retryMessage(phrase, number, gap, unit) :
        phrase \in RetryPhrases \cup {<<>>}, number \in RetryNumbers,
        gap \in RetryGaps, unit \in RetryUnitWords }

\* The messages of the README.
ZenMessage == <<"b", "l", "o", "c", "k", "e", "d", " ", "b", "y", " ", "z",
    "e", "n", ".", "s", "p", "a", "m", "h", "a", "u", "s", ".", "o", "r",
    "g">>

ZenReply == <<"5", "5", "0", " ", "b", "l", "o", "c", "k", "e", "d", " ", "u",
    "s", "i", "n", "g", " ", "z", "e", "n", ".", "s", "p", "a", "m", "h", "a",
    "u", "s", ".", "o", "r", "g">>

\* The message of the test of several blocklists.
SpamhausAndBarracuda ==
    <<"B", "l", "o", "c", "k", "e", "d", " ", "b", "y", " ", "s", "p", "a",
    "m", "h", "a", "u", "s", ".", "o", "r", "g", " ", "a", "n", "d", " ",
    "b", "a", "r", "r", "a", "c", "u", "d", "a">>

\* Blocklist mentions, two to a message
BlocklistMentions ==
    { <<>>, <<"z", "e", "n", ".", "s", "p", "a", "m", "h", "a", "u", "s", ".",
      "o", "r", "g">>, <<"S", "B", "L">>, <<"s", "b", "l", "x">>, <<"b", "a",
      "r", "r", "a", "c", "u", "d", "a">>, <<"b", ".", "b", "a", "r", "r",
      "a", "c", "u", "d", "a", "c", "e", "n", "t", "r", "a", "l", ".", "o",
      "r", "g">>, <<"d", "n", "s", "b", "l", ".", "s", "o", "r", "b", "s",
      ".", "n", "e", "t">>, <<"T", "r", "e", "n", "d", " ", " ", "M", "i",
      "c", "r", "o">>, <<"S", "3", "1", "5", "0">>, <<"R", "B", "L">>, <<"d",
      "n", "s", "b", "l">>, <<"b", "l", "a", "c", "k", "l", "i", "s", "t">>,
      <<"b", "l", "o", "c", "k", "l", "i", "s", "t">> }

BlockedBy == <<"b", "l", "o", "c", "k", "e", "d", " ", "b", "y", " ">>

BlocklistMessages ==
    { BlockedBy \o first \o <<" ">> \o second :
        first \in BlocklistMentions, second \in BlocklistMentions }
    \cup {ZenMessage, ZenReply, SpamhausAndBarracuda}

\* Categories: the labels, names that Object.prototype defines, other names.
Categories ==
    DOMAIN ACTION_MAP \cup DOMAIN ObjectPrototype
    \cup {"", "review", "User_Unknown", "user unknown", "undefined", "null"}


(***************************************************************************)
(* State.                                                                  *)
(*                                                                         *)
(* A load is the async body that initialize() starts (the promise kept in  *)
(* initPromise); pc is the await it is suspended at:                       *)
(*   "defaultPathImport"  in getDefaultModelPath, awaiting the imports     *)
(*   "defaultPath"        awaiting the promise of getDefaultModelPath()    *)
(*   "importPath"         awaiting import("path")                          *)
(*   "vocab", "labels", "weights"  awaiting the file of that name          *)
(*   "done", "failed"     the promise is resolved, rejected with error     *)
(* stale is history: reset() has been called since the load started.       *)
(*                                                                         *)
(* A call is one call of initialize, classify or getLabels with argument   *)
(* arg (the modelPath option, the message).  While its promise is pending  *)
(* it is in the bag pending, with the load its await initialize() waits    *)
(* for (0: an initialize() that returned at once, the classifier being     *)
(* initialized).  settled holds the calls whose promise the last step      *)
(* settled: resolved with res, or rejected with error.                     *)
(***************************************************************************)
VARIABLES
    isBrowser,        \* the environment the module was loaded in
    weights,          \* let weights = null
    vocabMap,         \* let vocabMap = null
    labels,           \* let labels = null
    isInitialized,    \* let isInitialized = false
    initPromise,      \* let initPromise = null: 0, or the load it stands for
    modelBasePath,    \* let modelBasePath = null
    cachedModelPath,  \* let cachedModelPath = null
    loads,            \* the async bodies started by initialize(), in order
    pending,          \* the calls whose promise is pending
    settled           \* the calls whose promise the last step settled

vars == <<isBrowser, weights, vocabMap, labels, isInitialized, initPromise,
          modelBasePath, cachedModelPath, loads, pending, settled>>

singleton == <<weights, vocabMap, labels, isInitialized, initPromise,
               modelBasePath, cachedModelPath>>

\* isReady()
isReady == isInitialized

Init ==
    /\ isBrowser \in BOOLEAN
    /\ weights = Null
    /\ vocabMap = Null
    /\ labels = Null
    /\ isInitialized = FALSE
    /\ initPromise = 0
    /\ modelBasePath = JsNull
    /\ cachedModelPath = JsNull
    /\ loads = <<>>
    /\ pending = EmptyBag
    /\ settled = {}

InFlight == {"defaultPathImport", "defaultPath", "importPath", "vocab",
             "labels", "weights"}

BrowserModelPath == JsString(<<".", "/", "m", "o", "d", "e", "l">>)
NodeModelPath == JsString(<<"/", "p", "k", "g", "/", "m", "o", "d", "e", "l">>)

\* The value getDefaultModelPath() computes.
defaultModelPath == IF isBrowser THEN BrowserModelPath ELSE NodeModelPath

\* joinPath(base, file) throws: path.join rejects an argument that is not a
\* string; in the browser parts.join("/") takes any value.
joinPathThrows(base) == ~isBrowser /\ typeOf(base) # "string"

\* A load just started.
Load(pc) == [pc |-> pc, error |-> NoError, stale |-> FALSE]

Pending(kind, arg, load) == [kind |-> kind, arg |-> arg, load |-> load]

Settled(call, pc, error, res) ==
    [kind |-> call.kind, arg |-> call.arg, load |-> call.load,
     pc |-> pc, error |-> error, res |-> res]

\* The promises that follow load l: the calls of initialize() that started
\* it or got initPromise back.
followers(l) ==
    { call \in BagToSet(pending) : call.kind = "initialize" /\ call.load = l }

\* The promise of load l settles, and with it the promises that follow it.
settleFollowers(l, pc, error) ==
    /\ pending' = [call \in BagToSet(pending) \ followers(l) |-> pending[call]]
    /\ settled' = { Settled(call, pc, error, "none") : call \in followers(l) }

\* A promise reaction is queued: a classify() or getLabels() whose
\* await initialize() has settled and whose body has not resumed yet.
microtaskPending ==
    \E call \in BagToSet(pending) :
        /\ call.kind \in {"classify", "getLabels"}
        /\ \/ call.load = 0
           \/ loads[call.load].pc \in {"done", "failed"}

(***************************************************************************)
(* initialize(options), lines 568-582: which way the call goes.            *)
(***************************************************************************)
\* Mutant: the in-flight promise is not returned (line 570 left out).
initializeBranchNoJoin(modelPath) ==
    IF isInitialized THEN "return"
    ELSE IF validateModelPath(modelPath) # NoError THEN "throw"
    ELSE "load"

\* Mutant: the options are validated before the early returns.
initializeBranchValidateFirst(modelPath) ==
    IF validateModelPath(modelPath) # NoError THEN "throw"
    ELSE IF isInitialized THEN "return"
    ELSE IF initPromise # 0 THEN "returnInitPromise"
    ELSE "load"

initializeBranch(modelPath) ==
    IF isInitialized THEN "return"
    ELSE IF initPromise # 0 THEN "returnInitPromise"
    ELSE IF validateModelPath(modelPath) # NoError THEN "throw"
    ELSE "load"

(***************************************************************************)
(* initialize(options), lines 584-622: the async body is started and runs  *)
(* to its first await; initPromise is set to its promise.                  *)
(***************************************************************************)
startLoad(modelPath) ==
    /\ Len(loads) < MaxLoads
    /\ initPromise' = Len(loads) + 1
    /\ IF truthy(modelPath)
       THEN /\ modelBasePath' = modelPath
            /\ cachedModelPath' = cachedModelPath
            /\ loads' = Append(loads,
                   Load(IF isBrowser THEN "vocab" ELSE "importPath"))
       ELSE /\ modelBasePath' = modelBasePath
            /\ IF truthy(cachedModelPath)
               THEN /\ cachedModelPath' = cachedModelPath
                    /\ loads' = Append(loads, Load("defaultPath"))
               ELSE IF isBrowser
               THEN /\ cachedModelPath' = BrowserModelPath
                    /\ loads' = Append(loads, Load("defaultPath"))
               ELSE /\ cachedModelPath' = cachedModelPath
                    /\ loads' = Append(loads, Load("defaultPathImport"))
    /\ UNCHANGED <<weights, vocabMap, labels, isInitialized>>

\* A call of initialize(options) made by the call (kind, arg): by the user
\* (kind "initialize") or by classify/getLabels as await initialize().
callInitialize(modelPath, kind, arg) ==
    LET branch == initializeBranch(modelPath)
        awaits(load) ==
            /\ BagCardinality(pending) < MaxPending
            /\ pending' = pending (+) SetToBag({Pending(kind, arg, load)})
            /\ settled' = {}
        settles(pc, error) ==
            /\ pending' = pending
            /\ settled' = {Settled(Pending(kind, arg, 0), pc, error, "none")}
    IN  /\ UNCHANGED isBrowser
        /\ CASE branch = "return" ->
                 /\ UNCHANGED <<singleton, loads>>
                 /\ IF kind = "initialize"
                    THEN settles("resolved", NoError)
                    ELSE awaits(0)
             [] branch = "returnInitPromise" ->
                 /\ UNCHANGED <<singleton, loads>>
                 /\ awaits(initPromise)
             [] branch = "throw" ->
                 /\ UNCHANGED <<singleton, loads>>
                 /\ settles("rejected", validateModelPath(modelPath))
             [] branch = "load" ->
                 /\ startLoad(modelPath)
                 /\ awaits(Len(loads) + 1)

\* export async function initialize(options = {})
initialize(options) ==
    callInitialize(options.modelPath, "initialize", options.modelPath)

\* export async function classify(message), up to await initialize()
classify(message) == callInitialize(JsUndefined, "classify", message)

\* export async function getLabels(), up to await initialize()
getLabels == callInitialize(JsUndefined, "getLabels", JsUndefined)

\* export function reset()
reset ==
    /\ weights' = Null
    /\ vocabMap' = Null
    /\ labels' = Null
    /\ isInitialized' = FALSE
    /\ initPromise' = 0
    /\ modelBasePath' = JsNull
    /\ cachedModelPath' = JsNull
    /\ settled' = {}
    /\ loads' = [l \in DOMAIN loads |-> [loads[l] EXCEPT !.stale = TRUE]]
    /\ UNCHANGED <<isBrowser, pending>>

(***************************************************************************)
(* The steps of a load.                                                    *)
(***************************************************************************)
\* catch (error) { initPromise = null; throw error; }
loadThrows(l, error) ==
    /\ initPromise' = 0
    /\ loads' = [loads EXCEPT ![l].pc = "failed", ![l].error = error]
    /\ settleFollowers(l, "rejected", error)

\* The load goes on to its next await.
loadAwaits(l, pc) ==
    /\ loads' = [loads EXCEPT ![l].pc = pc]
    /\ settled' = {}
    /\ UNCHANGED pending

\* getDefaultModelPath() in Node.js, after its imports: the path is computed
\* and cached.
defaultPathImported(l) ==
    /\ loads[l].pc = "defaultPathImport"
    /\ cachedModelPath' = NodeModelPath
    /\ loadAwaits(l, "defaultPath")
    /\ UNCHANGED <<isBrowser, weights, vocabMap, labels,
                   isInitialized, initPromise, modelBasePath>>

\* modelBasePath = options.modelPath || (await getDefaultModelPath()), and on
\* to the path joiner: parts.join in the browser, await import("path") in Node.
defaultPathResolved(l) ==
    /\ loads[l].pc = "defaultPath"
    /\ modelBasePath' = defaultModelPath
    /\ loadAwaits(l, IF isBrowser THEN "vocab" ELSE "importPath")
    /\ UNCHANGED <<isBrowser, weights, vocabMap, labels,
                   isInitialized, initPromise, cachedModelPath>>

\* Node.js: joinPath = path.join; vocabPath = joinPath(modelBasePath, ...);
\* loadJson(vocabPath) is awaited.
importPathResolved(l) ==
    /\ loads[l].pc = "importPath"
    /\ UNCHANGED <<isBrowser, weights, vocabMap, labels,
                   isInitialized, modelBasePath, cachedModelPath>>
    /\ IF joinPathThrows(modelBasePath)
       THEN loadThrows(l, TypeErrorPath)
       ELSE /\ loadAwaits(l, "vocab")
            /\ UNCHANGED initPromise

\* vocab.json arrives: vocabMap is built, labels.json is asked for.
vocabLoaded(l, vocabData) ==
    /\ loads[l].pc = "vocab"
    /\ ~microtaskPending
    /\ vocabMap' = newVocabMap(vocabData)
    /\ UNCHANGED <<isBrowser, weights, labels, isInitialized,
                   modelBasePath, cachedModelPath>>
    /\ IF joinPathThrows(modelBasePath)
       THEN loadThrows(l, TypeErrorPath)
       ELSE /\ loadAwaits(l, "labels")
            /\ UNCHANGED initPromise

\* labels.json arrives: labels is set, the weights file is asked for.
labelsLoaded(l, labelData) ==
    /\ loads[l].pc = "labels"
    /\ ~microtaskPending
    /\ labels' = labelData
    /\ UNCHANGED <<isBrowser, weights, vocabMap, isInitialized,
                   modelBasePath, cachedModelPath>>
    /\ IF joinPathThrows(modelBasePath)
       THEN loadThrows(l, TypeErrorPath)
       ELSE /\ loadAwaits(l, "weights")
            /\ UNCHANGED initPromise

\* The weights file arrives as n floats: weights = parseWeights(weightsData);
\* isInitialized = true; the promise of the load resolves.
weightsLoaded(l, n) ==
    /\ loads[l].pc = "weights"
    /\ ~microtaskPending
    /\ weights' = parseWeights(n)
    /\ isInitialized' = TRUE
    /\ loads' = [loads EXCEPT ![l].pc = "done"]
    /\ settleFollowers(l, "resolved", NoError)
    /\ UNCHANGED <<isBrowser, vocabMap, labels, initPromise,
                   modelBasePath, cachedModelPath>>

\* loadJson or loadWeights rejects (the file is missing or unreadable, the
\* response is not ok, the JSON does not parse).
loadFailed(l) ==
    /\ loads[l].pc \in {"vocab", "labels", "weights"}
    /\ ~microtaskPending
    /\ loadThrows(l, LoadError(loads[l].pc))
    /\ UNCHANGED <<isBrowser, weights, vocabMap, labels,
                   isInitialized, modelBasePath, cachedModelPath>>

(***************************************************************************)
(* classify(message) after await initialize(), lines 633-677.  tokenize    *)
(* reads vocabMap, forward reads weights, the score loop reads labels.     *)
(***************************************************************************)
\* The body of an async function resumes after await initialize(): the await
\* throws what the load was rejected with, or the body runs to its end.
\* Mutant: the body goes on without awaiting initialize().
resumesWithoutAwait(call, body) ==
    /\ BagIn(call, pending)
    /\ pending' = pending (-) SetToBag({call})
    /\ settled' = { Settled(call, body.pc, body.error, body.res) }
    /\ UNCHANGED <<isBrowser, singleton, loads>>

resumes(call, body) ==
    /\ BagIn(call, pending)
    /\ call.load # 0 => loads[call.load].pc \in {"done", "failed"}
    /\ pending' = pending (-) SetToBag({call})
    /\ settled' =
         { IF call.load # 0 /\ loads[call.load].pc = "failed"
           THEN Settled(call, "rejected", loads[call.load].error, "none")
           ELSE Settled(call, body.pc, body.error, body.res) }
    /\ UNCHANGED <<isBrowser, singleton, loads>>

classifyBody(message) ==
    LET sanitized == sanitizeMessage(message)
    IN  IF ~sanitized.ok
        THEN [pc |-> "rejected", error |-> sanitized.error, res |-> "none"]
        ELSE IF vocabMap = Null \/ weights = Null \/ labels = Null
        THEN [pc |-> "rejected", error |-> TypeErrorNull, res |-> "none"]
        ELSE [pc |-> "resolved", error |-> NoError, res |-> "result"]

\* Mutant: the body clears the init promise when it is done.
classifyResumesAndClears(call) ==
    /\ call.kind = "classify"
    /\ BagIn(call, pending)
    /\ call.load # 0 => loads[call.load].pc \in {"done", "failed"}
    /\ pending' = pending (-) SetToBag({call})
    /\ settled' = { Settled(call, classifyBody(call.arg).pc,
                            classifyBody(call.arg).error,
                            classifyBody(call.arg).res) }
    /\ initPromise' = 0
    /\ UNCHANGED <<isBrowser, weights, vocabMap, labels, isInitialized,
                   modelBasePath, cachedModelPath, loads>>

classifyResumes(call) ==
    /\ call.kind = "classify"
    /\ resumes(call, classifyBody(call.arg))

\* getLabels() after await initialize(): Object.values(labels.id_to_label)
getLabelsBody ==
    IF labels = Null
    THEN [pc |-> "rejected", error |-> TypeErrorNull, res |-> "none"]
    ELSE [pc |-> "resolved", error |-> NoError, res |-> "labels"]

getLabelsResumes(call) ==
    /\ call.kind = "getLabels"
    /\ resumes(call, getLabelsBody)

(***************************************************************************)
(* The next-state relation, for the inputs a specification draws from:     *)
(* the modelPath options of initialize(), the messages of classify() and   *)
(* the lengths of the weights file.                                        *)
(***************************************************************************)
NextOn(modelPaths, messages, weightLens) ==
    \/ \E modelPath \in modelPaths : initialize([modelPath |-> modelPath])
    \/ \E message \in messages : classify(message)
    \/ getLabels
    \/ \E l \in DOMAIN loads : defaultPathImported(l)
    \/ \E l \in DOMAIN loads : defaultPathResolved(l)
    \/ \E l \in DOMAIN loads : importPathResolved(l)
    \/ \E l \in DOMAIN loads : \E vocabData \in VocabFiles :
           vocabLoaded(l, vocabData)
    \/ \E l \in DOMAIN loads : \E labelData \in LabelFiles :
           labelsLoaded(l, labelData)
    \/ \E l \in DOMAIN loads : \E n \in weightLens : weightsLoaded(l, n)
    \/ \E l \in DOMAIN loads : loadFailed(l)
    \/ \E call \in BagToSet(pending) : classifyResumes(call)
    \/ \E call \in BagToSet(pending) : getLabelsResumes(call)

CoreModelPaths == {JsUndefined, CustomModelPath}
CoreMessages == {ValidMessage}
CoreWeightLens == {LayoutLen(4)}

\* Every operation, on well-formed inputs.
Next == NextOn(CoreModelPaths, CoreMessages, CoreWeightLens) \/ reset

Spec == Init /\ [][Next]_vars

\* No call of reset().
NextNoReset == NextOn(CoreModelPaths, CoreMessages, CoreWeightLens)

SpecNoReset == Init /\ [][NextNoReset]_vars

\* Every modelPath option.
NextOptions == NextOn(ModelPathOptions, CoreMessages, CoreWeightLens) \/ reset

SpecOptions == Init /\ [][NextOptions]_vars

\* Every message.
NextMessages == NextOn({JsUndefined}, MessageInputs, CoreWeightLens) \/ reset

SpecMessages == Init /\ [][NextMessages]_vars

\* Every length of the weights file.
NextWeights == NextOn({JsUndefined}, CoreMessages, WeightFileLens) \/ reset

SpecWeights == Init /\ [][NextWeights]_vars

(***************************************************************************)
(* Calls of the exported helpers.  A helper is synchronous and reads no    *)
(* state: a behaviour of SpecHelpers is one call, drawn by the initial     *)
(* state, and its return.  The call is in pending until it returns, and in *)
(* settled, with what it returned, after.                                  *)
(***************************************************************************)
HelperCall(kind, arg) == Pending(kind, arg, 0)

HelperCalls ==
    { HelperCall("extractSmtpCodes", message) : message \in CodeMessages }
    \cup { HelperCall("getTextBasedFallback", message) :
             message \in CodeMessages }
    \cup { HelperCall("getCodeBasedFallback", message) :
             message \in CodeMessages }
    \cup { HelperCall("extractRetryTiming", message) :
             message \in RetryMessages }
    \cup { HelperCall("identifyBlocklist", message) :
             message \in BlocklistMessages }
    \cup { HelperCall("getAction", category) : category \in Categories }

returns(call, res) ==
    /\ BagIn(call, pending)
    /\ pending' = pending (-) SetToBag({call})
    /\ settled' = { Settled(call, "returned", NoError, res) }
    /\ UNCHANGED <<isBrowser, singleton, loads>>

extractSmtpCodesReturns(call) ==
    /\ call.kind = "extractSmtpCodes"
    /\ returns(call, extractSmtpCodes(call.arg))

getTextBasedFallbackReturns(call) ==
    /\ call.kind = "getTextBasedFallback"
    /\ returns(call, getTextBasedFallback(call.arg))

getCodeBasedFallbackReturns(call) ==
    /\ call.kind = "getCodeBasedFallback"
    /\ returns(call, getCodeBasedFallback(call.arg))

extractRetryTimingReturns(call) ==
    /\ call.kind = "extractRetryTiming"
    /\ returns(call, extractRetryTiming(call.arg))

identifyBlocklistReturns(call) ==
    /\ call.kind = "identifyBlocklist"
    /\ returns(call, identifyBlocklist(call.arg))

getActionReturns(call) ==
    /\ call.kind = "getAction"
    /\ returns(call, getAction(call.arg))

\* The module is loaded and nothing is initialized; one helper is called.
InitHelpers ==
    /\ isBrowser \in BOOLEAN
    /\ weights = Null
    /\ vocabMap = Null
    /\ labels = Null
    /\ isInitialized = FALSE
    /\ initPromise = 0
    /\ modelBasePath = JsNull
    /\ cachedModelPath = JsNull
    /\ loads = <<>>
    /\ settled = {}
    /\ \E call \in HelperCalls : pending = SetToBag({call})

NextHelpers ==
    \/ \E call \in BagToSet(pending) : extractSmtpCodesReturns(call)
    \/ \E call \in BagToSet(pending) : getTextBasedFallbackReturns(call)
    \/ \E call \in BagToSet(pending) : getCodeBasedFallbackReturns(call)
    \/ \E call \in BagToSet(pending) : extractRetryTimingReturns(call)
    \/ \E call \in BagToSet(pending) : identifyBlocklistReturns(call)
    \/ \E call \in BagToSet(pending) : getActionReturns(call)

SpecHelpers == InitHelpers /\ [][NextHelpers]_vars

(***************************************************************************)
(* classify(message), lines 630-678, in full: the tokens, the scores of    *)
(* the network, the label, the rule fallback and the fields of the result. *)
(***************************************************************************)
MAX_LENGTH == 100

\* text.toLowerCase().replace(/[^\w\s]/g, " ").replace(/\s+/g, " ").trim()
preprocessText(text) ==
    LET lower == toLowerCase(text)
        isSpace(i) == lower[i] \notin WordChars
        marked == [i \in 1..Len(lower) |->
                     IF ~isSpace(i) THEN lower[i]
                     ELSE IF i > 1 /\ isSpace(i - 1) THEN "(run)"
                     ELSE " "] \o <<>>
        kept(c) == c # "(run)"
    IN  trim(SelectSeq(marked, kept))

\* processed.split(" "): the words between the spaces; one empty word for
\* the empty string.
split(processed) ==
    LET isGap(i) == processed[i] = " "
        gaps == SelectSeq([i \in 1..Len(processed) |-> i] \o <<>>, isGap)
        from(k) == IF k = 1 THEN 1 ELSE gaps[k - 1] + 1
        to(k) == IF k = Len(gaps) + 1 THEN Len(processed) ELSE gaps[k] - 1
    IN  [n |-> Len(gaps) + 1,
         word |-> [k \in 1..Min(Len(gaps) + 1, MAX_LENGTH) |->
                     SubSeq(processed, from(k), to(k))]]

\* The string of the characters of a word.
RECURSIVE join(_)
join(word) == IF word = <<>> THEN "" ELSE Head(word) \o join(Tail(word))

\* Mutant: a word that the vocabulary does not have gets the padding id.
tokenOfUnknownAsPadding(word) ==
    LET entries == { w \in DOMAIN vocabMap.map :
                       Len(w) = Len(word) /\ w = join(word) }
    IN  IF entries = {} THEN 0 ELSE vocabMap.map[CHOOSE w \in entries : TRUE]

\* vocabMap.has(word) ? vocabMap.get(word) : 1
tokenOf(word) ==
    LET entries == { w \in DOMAIN vocabMap.map :
                       Len(w) = Len(word) /\ w = join(word) }
    IN  IF entries = {} THEN 1 ELSE vocabMap.map[CHOOSE w \in entries : TRUE]

\* tokenize(text): MAX_LENGTH tokens, 0 past the last word
tokenize(text) ==
    LET words == split(preprocessText(text))
    IN  [i \in 1..MAX_LENGTH |->
           IF i <= words.n THEN tokenOf(words.word[i]) ELSE 0]

\* A score is a number of thousandths: softmax gives 16 positive scores of
\* sum 1.
ScoreScale == 1000

\* forward(tokens).  The embeddings of the tokens are added up, so the
\* scores depend on how many times each token occurs and not on the order;
\* which scores they are is set by the weights file.  The model takes a
\* network of five outputs, chosen by the sum of the tokens: a confident
\* one, one of maximum exactly 0.5, one just below, one whose two highest
\* scores are equal, and a flat one.  The weights have the layout that
\* parseWeights expects, so that no score is NaN.
ScoreProfiles ==
    << <<7, 7, 7, 7, 7, 7, 7, 7, 7, 7, 6, 6, 6, 6, 900, 6>>,
       <<8, 7, 7, 7, 400, 7, 7, 7, 7, 7, 7, 7, 8, 7, 500, 7>>,
       <<8, 7, 7, 7, 7, 7, 7, 401, 7, 7, 7, 499, 8, 7, 7, 7>>,
       <<29, 29, 29, 300, 29, 29, 29, 29, 29, 300, 28, 28, 28, 28, 28, 28>>,
       <<62, 62, 63, 63, 63, 63, 63, 63, 63, 63, 62, 62, 62, 62, 62, 62>> >>

\* The sum of tokens[first..last], by halves
RECURSIVE sumBetween(_, _, _)
sumBetween(tokens, first, last) ==
    IF first > last THEN 0
    ELSE IF first = last THEN tokens[first]
    ELSE LET middle == (first + last) \div 2
         IN  sumBetween(tokens, first, middle)
             + sumBetween(tokens, middle + 1, last)

sumFrom(tokens, i) == sumBetween(tokens, i, Len(tokens))

forward(tokens) ==
    ScoreProfiles[(sumFrom(tokens, 1) % Len(ScoreProfiles)) + 1]

\* The loop of lines 642-649: the highest score above 0 and the first index
\* that has it (index 0 of the code is index 1 here).
maxScoreOf(scores) == SetMax({0} \cup { scores[i] : i \in 1..Len(scores) })

\* Mutant: the last index that has the highest score (>= for >).
maxIndexOfLast(scores) ==
    IF maxScoreOf(scores) = 0 THEN 1
    ELSE SetMax({ i \in 1..Len(scores) : scores[i] = maxScoreOf(scores) })

maxIndexOf(scores) ==
    IF maxScoreOf(scores) = 0 THEN 1
    ELSE SetMin({ i \in 1..Len(scores) : scores[i] = maxScoreOf(scores) })

\* Mutant: the fallback is consulted at the threshold too.
belowThresholdOrAt(maxScore) == maxScore <= CODE_FALLBACK_THRESHOLD

\* if (maxScore < CODE_FALLBACK_THRESHOLD)
belowThreshold(maxScore) == maxScore < CODE_FALLBACK_THRESHOLD

\* A field of the result that is set under a condition only.
field(present, fld) == IF present THEN fld ELSE <<>>

\* Lines 651-675: the result, from the scores of the network and what the
\* rules give for the message.
resultOf(names, scores, fallbackLabel, retryAfter, blocklist) ==
    LET allScores == [name \in { names[i] : i \in 1..Len(scores) } |->
                        scores[CHOOSE i \in 1..Len(scores) : names[i] = name]]
        usedFallback == fallbackLabel # NoLabel
        label == IF usedFallback THEN fallbackLabel
                 ELSE names[maxIndexOf(scores)]
    IN  [label |-> label, confidence |-> maxScoreOf(scores),
         action |-> getAction(label), scores |-> allScores]
        @@ field(usedFallback, [usedFallback |-> TRUE])
        @@ field(retryAfter # JsNull, [retryAfter |-> retryAfter])
        @@ field(blocklist # JsNull, [blocklist |-> blocklist])

\* Lines 638-675, for the scores that forward returned.
scored(message, scores) ==
    resultOf(labels.id_to_label, scores,
             IF belowThreshold(maxScoreOf(scores))
             THEN getCodeBasedFallback(message)
             ELSE NoLabel,
             extractRetryTiming(message),
             identifyBlocklist(message))

\* Lines 635-677: the result for a sanitized message.
classifyResult(message) == scored(message, forward(tokenize(message)))

\* The body of classify after await initialize(), lines 633-677.
classifyOutcome(message) ==
    LET sanitized == sanitizeMessage(message)
    IN  IF ~sanitized.ok
        THEN [pc |-> "rejected", error |-> sanitized.error, res |-> "none"]
        ELSE IF vocabMap = Null \/ weights = Null \/ labels = Null
        THEN [pc |-> "rejected", error |-> TypeErrorNull, res |-> "none"]
        ELSE [pc |-> "resolved", error |-> NoError,
              res |-> classifyResult(sanitized.value)]

classifyReturns(call) ==
    /\ call.kind = "classify"
    /\ resumes(call, classifyOutcome(call.arg))

(***************************************************************************)
(* Calls of classify on an initialized classifier.  A behaviour of         *)
(* SpecClassify is one call made after initialize() has loaded the model:  *)
(* await initialize() returns at once, the call is pending until its body  *)
(* has run, and settled with the result or the error after.                *)
(***************************************************************************)
\* Messages put together from a reply, a retry advice and a blocklist mention.
ClassifyReplies ==
    { <<>>, <<"5", "5", "0", " ", "5", ".", "1", ".", "1", " ", "u", "s",
      "e", "r", " ", "u", "n", "k", "n", "o", "w", "n">>, <<"4", "2", "1",
      " ", "4", ".", "7", ".", "0", " ", "g", "r", "e", "y", "l", "i", "s",
      "t", "e", "d">>, <<"5", "5", "4", " ", "r", "e", "j", "e", "c", "t",
      "e", "d">>, <<"5", "5", "0", " ", "5", ".", "7", ".", "1", " ", "r",
      "e", "j", "e", "c", "t", "e", "d">>, <<"u", "s", "e", "r", " ", "u",
      "s", "e", "r", " ", "u", "n", "k", "n", "o", "w", "n", " ", "u", "n",
      "k", "n", "o", "w", "n", " ", "u", "n", "k", "n", "o", "w", "n">>,
      <<"4", "5", "0", " ", "4", ".", "2", ".", "2", " ", "x", " ", "y">>,
      <<"5", "5", "2", " ", "u", "s", "e", "r">> }

ClassifyAdvices ==
    { <<>>, <<" ", "t", "r", "y", " ", "a", "g", "a", "i", "n", " ", "i",
      "n", " ", "5", " ", "m", "i", "n", "u", "t", "e", "s">>, <<" ", "r",
      "e", "t", "r", "y", " ", "i", "n", " ", "2", "5", " ", "h", "o", "u",
      "r", "s">> }

ClassifyMentions ==
    { <<>>, <<" ", "b", "l", "o", "c", "k", "e", "d", " ", "b", "y", " ",
      "z", "e", "n", ".", "s", "p", "a", "m", "h", "a", "u", "s", ".", "o",
      "r", "g">>, <<" ", "l", "i", "s", "t", "e", "d", " ", "i", "n", " ",
      "R", "B", "L">> }

ClassifyTexts ==
    { reply \o advice \o mention :
        reply \in ClassifyReplies, advice \in ClassifyAdvices,
        mention \in ClassifyMentions }
    \cup CodeMessages \cup BlocklistMessages

ClassifyMessages ==
    MessageInputs \cup { JsString(text) : text \in ClassifyTexts }

\* The state after initialize() has loaded the model of the package, and
\* one of calls pending.
InitCalled(calls) ==
    /\ isBrowser \in BOOLEAN
    /\ \E vocabData \in VocabFiles : vocabMap = newVocabMap(vocabData)
    /\ \E labelData \in LabelFiles : labels = labelData
    /\ \E n \in CoreWeightLens : weights = parseWeights(n)
    /\ isInitialized = TRUE
    /\ initPromise = 1
    /\ modelBasePath = defaultModelPath
    /\ cachedModelPath = defaultModelPath
    /\ loads = << [Load("weights") EXCEPT !.pc = "done"] >>
    /\ settled = {}
    /\ \E call \in calls : pending = SetToBag({call})

\* classify(message) up to await initialize(), which returns at once.
ClassifyCalls(messages) ==
    { Pending("classify", message, 0) : message \in messages }

InitClassify == InitCalled(ClassifyCalls(ClassifyMessages))

NextClassify == \E call \in BagToSet(pending) : classifyReturns(call)

SpecClassify == InitClassify /\ [][NextClassify]_vars

(***************************************************************************)
(* Calls of classify with messages longer than MAX_MESSAGE_LENGTH, on an   *)
(* initialized classifier.                                                 *)
(***************************************************************************)
\* n times the character c
pad(n, c) == [i \in 1..n |-> c] \o <<>>

\* head, then c up to cut characters before MAX_MESSAGE_LENGTH, then tail
longMessage(head, c, cut, tail) ==
    head \o pad(MAX_MESSAGE_LENGTH - cut - Len(head), c) \o tail

\* White space with a letter past the limit; a reply with a blocklist, a
\* retry advice and a code past the limit; a retry advice across the limit;
\* a message one character short of the limit; a message that fits.
LongTexts ==
    { longMessage(<<>>, " ", 0, <<"x">>),
      longMessage(<<"5", "5", "0", " ", "u", "s", "e", "r", " ", "u", "n",
       "k", "n", "o", "w", "n">>, " ", 0, <<" ", "b", "l", "o", "c", "k",
       "e", "d", " ", "b", "y", " ", "z", "e", "n", ".", "s", "p", "a", "m",
       "h", "a", "u", "s", ".", "o", "r", "g", ",", " ", "r", "e", "t", "r",
       "y", " ", "i", "n", " ", "5", " ", "m", "i", "n", "u", "t", "e", "s",
       " ", "5", ".", "2", ".", "2">>),
      longMessage(<<"u", "s", "e", "r", " ", "u", "n", "k", "n", "o", "w",
       "n">>, ".", 10, <<"r", "e", "t", "r", "y", " ", "i", "n", " ", "5",
       " ", "m", "i", "n", "u", "t", "e", "s">>),
      longMessage(<<"4", "2", "1", " ", "4", ".", "7", ".", "0", " ", "g",
       "r", "e", "y", "l", "i", "s", "t", "e", "d">>, "x", 1, <<>>),
      longMessage(<<"5", "5", "4", " ", "l", "i", "s", "t", "e", "d", " ",
       "i", "n", " ", "R", "B", "L">>, " ", 4, <<" ", "u", "s", "e", "r",
       " ", "u", "n", "k", "n", "o", "w", "n">>) }

TruncationMessages ==
    { JsString(text) :
        text \in LongTexts \cup { reply \o advice \o mention :
                                   reply \in ClassifyReplies,
                                   advice \in ClassifyAdvices,
                                   mention \in ClassifyMentions } }

InitTruncation == InitCalled(ClassifyCalls(TruncationMessages))

SpecTruncation == InitTruncation /\ [][NextClassify]_vars

(***************************************************************************)
(* Calls of classifyBatch, which the tests import from src/index.js and    *)
(* the README documents.  The module defines and exports no classifyBatch  *)
(* (CHANGELOG, 2.0.0: "Remove classifyBatch() API"): the named import does *)
(* not link, and the property of the default export is undefined, so that  *)
(* a call throws a TypeError.                                              *)
(***************************************************************************)
\* The named exports of src/index.js.
ExportNames ==
    {"ACTION_MAP", "BLOCKLIST_PATTERNS", "SMTP_CODE_MAP", "SMTP_MAIN_CODE_MAP",
     "CODE_FALLBACK_THRESHOLD", "extractSmtpCodes", "getTextBasedFallback",
     "getCodeBasedFallback", "extractRetryTiming", "identifyBlocklist",
     "getAction", "initialize", "classify", "getLabels", "isReady", "reset"}

TypeErrorNotFunction(name) ==
    <<"TypeError:", name, "is", "not", "a", "function">>

JsArray(items) == [t |-> "array", v |-> items]

BatchItems == { JsString(text) : text \in ClassifyReplies }

MaxBatch == 2  \* messages in one batch

BatchInputs ==
    { JsArray(items) :
        items \in UNION { [1..n -> BatchItems] : n \in 0..MaxBatch } }
    \cup { JsNull, JsUndefined, JsNumber(<<"1">>),
           JsString(<<"n", "o", "t", " ", "a", "n", " ", "a", "r", "r", "a",
                      "y">>) }

BatchCalls ==
    { Pending("classifyBatch", messages, 0) : messages \in BatchInputs }

\* A call of a name that the module does not export.
notExportedCalled(call) ==
    /\ call.kind \notin ExportNames
    /\ BagIn(call, pending)
    /\ pending' = pending (-) SetToBag({call})
    /\ settled' = { Settled(call, "rejected",
                            TypeErrorNotFunction(call.kind), "none") }
    /\ UNCHANGED <<isBrowser, singleton, loads>>

InitBatch == InitCalled(BatchCalls \cup ClassifyCalls(BatchItems))

NextBatch ==
    \/ \E call \in BagToSet(pending) : notExportedCalled(call)
    \/ \E call \in BagToSet(pending) : classifyReturns(call)

SpecBatch == InitBatch /\ [][NextBatch]_vars

(***************************************************************************)
(* Calls of extractRetryTiming with messages that give two retry advices.  *)
(***************************************************************************)
RetryAdvices ==
    { <<>>, <<"t", "r", "y", " ", "a", "g", "a", "i", "n", " ", "i", "n",
      " ", "0", " ", "s", "e", "c", "o", "n", "d", "s">>, <<"t", "r", "y",
      " ", "a", "g", "a", "i", "n", " ", "i", "n", " ", "1", "0", " ", "m",
      "i", "n", "u", "t", "e", "s">>, <<"r", "e", "t", "r", "y", " ", "i",
      "n", " ", "5", " ", "m", "i", "n", "u", "t", "e", "s">>, <<"r", "e",
      "t", "r", "y", " ", "i", "n", " ", "2", "5", " ", "h", "o", "u", "r",
      "s">>, <<"w", "a", "i", "t", " ", "3", "0", " ", "s", "e", "c", "o",
      "n", "d", "s">>, <<"a", "f", "t", "e", "r", " ", "1", "0", "0", "0",
      "0", "0", " ", "s", "e", "c", "o", "n", "d", "s">>, <<"g", "r", "e",
      "y", "l", "i", "s", "t", "e", "d", " ", "f", "o", "r", " ", "2", " ",
      "h", "r">> }

RetryAdvicePairs ==
    { first \o <<",", " ">> \o second :
        first \in RetryAdvices, second \in RetryAdvices }

InitRetry ==
    /\ isBrowser \in BOOLEAN
    /\ weights = Null
    /\ vocabMap = Null
    /\ labels = Null
    /\ isInitialized = FALSE
    /\ initPromise = 0
    /\ modelBasePath = JsNull
    /\ cachedModelPath = JsNull
    /\ loads = <<>>
    /\ settled = {}
    /\ \E message \in RetryAdvicePairs :
           pending = SetToBag({HelperCall("extractRetryTiming", message)})

NextRetry == \E call \in BagToSet(pending) : extractRetryTimingReturns(call)

SpecRetry == InitRetry /\ [][NextRetry]_vars

(***************************************************************************)
(* Calls of tokenize, which classify makes with the sanitized message      *)
(* (line 635), on an initialized classifier.                               *)
(***************************************************************************)
\* Texts of up to two words, with white space and punctuation around them.
TokenizeWords ==
    { <<"u", "s", "e", "r">>, <<"U", "n", "k", "n", "o", "w", "n">>,
      <<"x">>, <<"5", "5", "0">>, <<"u", "s", "e", "r", "_", "1">> }

TokenizeSeparators ==
    { <<" ">>, <<",", " ">>, <<" ", "	", " ">>, <<"-">> }

TokenizeEnds ==
    { <<>>, <<" ">>, <<"!">> }

\* Texts without a word character, and a few others.
TokenizeSpecials ==
    { <<"!", "!", "!">>, <<" ", ".", " ">>, <<>>, <<"[", "U", "N", "K",
      "]">>, <<"u", "s", "e", "r", "'", "s">>, <<"U", "S", "E", "R", " ",
      "U", "N", "K", "N", "O", "W", "N">> }

\* n times the word w and a space
repeated(w, n) ==
    [i \in 1..(n * (Len(w) + 1)) |->
        IF i % (Len(w) + 1) = 0 THEN " " ELSE w[i % (Len(w) + 1)]] \o <<>>

\* Texts of MAX_LENGTH words and more: the last words are in the vocabulary.
TokenizeLongTexts ==
    { repeated(<<"x">>, n) \o <<"u", "s", "e", "r", " ", "u", "n", "k", "n",
                                "o", "w", "n">> :
        n \in (MAX_LENGTH - 2)..(MAX_LENGTH + 1) }

TokenizeTexts ==
    { lead \o first \o separator \o second \o end :
        lead \in TokenizeEnds, first \in TokenizeWords,
        separator \in TokenizeSeparators,
        second \in TokenizeWords \cup {<<>>}, end \in TokenizeEnds }
    \cup TokenizeSpecials \cup TokenizeLongTexts

tokenizeReturns(call) ==
    /\ call.kind = "tokenize"
    /\ returns(call, tokenize(call.arg))

InitTokenize ==
    InitCalled({ HelperCall("tokenize", text) : text \in TokenizeTexts })

NextTokenize == \E call \in BagToSet(pending) : tokenizeReturns(call)

SpecTokenize == InitTokenize /\ [][NextTokenize]_vars

(***************************************************************************)
(* Properties.                                                             *)
(***************************************************************************)
loadsInFlight == { l \in DOMAIN loads : loads[l].pc \in InFlight }

\* Load l settles in this step.
loadSettles(l) == loads[l].pc \in InFlight /\ loads'[l].pc \in {"done", "failed"}

\* The call c is added to the pending calls in this step.
newlyPending(c) == CopiesIn(c, pending') > CopiesIn(c, pending)

\* A settled call s has the outcome of the load its initialize() waited for:
\* the load's error if the load failed; if it is done, initialize() resolves
\* and classify/getLabels go on to their own result.
hasOutcomeOfLoad(s, load) ==
    /\ load.pc \in {"done", "failed"}
    /\ load.pc = "failed" => s.pc = "rejected" /\ s.error = load.error
    /\ load.pc = "done" /\ s.kind \in {"initialize", "getLabels"}
           => s.pc = "resolved"
    /\ load.pc = "done" /\ s.kind = "classify"
           => (s.pc = "resolved" <=> sanitizeMessage(s.arg).ok)

\* C1: without reset(), calls of initialize() (direct, or made by classify or
\* getLabels) while a load is in flight share that load: at most one load is
\* in flight, no call starts a second one, every new caller waits for the
\* one in flight, the promises that follow it settle when it does, and every
\* caller settles with its outcome.
C1_ConcurrentCallersShareOneLoad ==
    [][ /\ Cardinality(loadsInFlight') <= 1
        /\ \A l \in loadsInFlight :
              /\ Len(loads') = Len(loads)
              /\ \A c \in BagToSet(pending') : newlyPending(c) => c.load = l
              /\ loadSettles(l) =>
                    \A c \in followers(l) :
                        /\ ~BagIn(c, pending')
                        /\ \E s \in settled' :
                              s.kind = c.kind /\ s.arg = c.arg /\ s.load = l
        /\ \A s \in settled' :
              s.load # 0 => hasOutcomeOfLoad(s, loads'[s.load]) ]_vars

\* C1 witness: an initialize() and a classify() waited for the same load; it
\* is done and the initialize() has resolved.
C1_Witness ==
    \E l \in DOMAIN loads :
        /\ loads[l].pc = "done"
        /\ \E s \in settled :
              s.kind = "initialize" /\ s.load = l /\ s.pc = "resolved"
        /\ \E c \in BagToSet(pending) : c.kind = "classify" /\ c.load = l

\* C2: when a load fails, at whatever step, the process-wide state is fully
\* unset afterwards: isReady() is false and vocabMap, labels and weights are
\* null.
C2_FailedLoadLeavesStateUnset ==
    [][ \A l \in DOMAIN loads :
            loadSettles(l) /\ loads'[l].pc = "failed"
            => /\ ~isReady'
               /\ vocabMap' = Null
               /\ labels' = Null
               /\ weights' = Null ]_vars

\* C3: when a load fails, the failure is delivered to every caller waiting
\* for it, no retry is started, isReady() stays false, and the next call of
\* initialize() starts a new load instead of returning the rejected promise.
C3_FailedLoadIsReportedAndRetriable ==
    [][ \A l \in DOMAIN loads :
            loadSettles(l) /\ loads'[l].pc = "failed"
            => /\ \A c \in followers(l) :
                     \E s \in settled' :
                         /\ s.kind = c.kind /\ s.arg = c.arg /\ s.load = l
                         /\ s.pc = "rejected" /\ s.error = loads'[l].error
               /\ Len(loads') = Len(loads)
               /\ ~isReady'
               /\ initializeBranch(JsUndefined)' = "load" ]_vars

\* No load has been started since the last reset() (or ever).
noLoadSinceReset == \A l \in DOMAIN loads : loads[l].stale

\* C4: reset() leaves isReady() false and vocabMap, labels, weights,
\* initPromise and the model paths cleared, in every state, and the next
\* classify() call starts a fresh load and waits for it.
C4_ResetClearsAndNextClassifyReloads ==
    [][ /\ reset => /\ ~isReady'
                    /\ vocabMap' = Null /\ labels' = Null /\ weights' = Null
                    /\ initPromise' = 0
                    /\ modelBasePath' = JsNull /\ cachedModelPath' = JsNull
        /\ \A c \in BagToSet(pending') :
              newlyPending(c) /\ c.kind = "classify" /\ noLoadSinceReset
              => Len(loads') = Len(loads) + 1 /\ c.load = Len(loads') ]_vars

\* C5: once the classifier is initialized, a call of initialize(), whatever
\* its modelPath option, resolves, starts no load and leaves the singleton
\* state as it is.
C5_InitializeIsIdempotent ==
    [][ \A modelPath \in ModelPathOptions :
            isReady /\ initialize([modelPath |-> modelPath])
            => /\ UNCHANGED <<singleton, loads, pending>>
               /\ settled' = { Settled(Pending("initialize", modelPath, 0),
                                       "resolved", NoError, "none") } ]_vars

\* C5 witness: on an initialized classifier, an initialize() with a modelPath
\* option has resolved.
C5_Witness ==
    /\ isReady
    /\ \E s \in settled :
          /\ s.kind = "initialize" /\ s.arg = CustomModelPath
          /\ s.load = 0 /\ s.pc = "resolved"

\* C6: a classify() or getLabels() called while the classifier is not
\* initialized waits for a load that is in flight (one it starts, or the one
\* already started); it gives its result only when that load is done, and
\* isReady() is true when it resolves.
C6_AutoInitialize ==
    [][ /\ \A c \in BagToSet(pending') :
              newlyPending(c) /\ c.kind \in {"classify", "getLabels"}
                              /\ ~isReady
              => c.load # 0 /\ loads'[c.load].pc \in InFlight
        /\ \A s \in settled' :
              s.kind \in {"classify", "getLabels"} /\ s.load # 0
                                                   /\ s.pc = "resolved"
              => /\ loads'[s.load].pc = "done"
                 /\ s.res # "none"
                 /\ isReady' ]_vars

\* C6 witness: after a reset(), a classify() has started a load of its own,
\* waited for it and resolved with a result, and isReady() is true.
C6_Witness ==
    /\ isReady
    /\ \E s \in settled :
          /\ s.kind = "classify" /\ s.pc = "resolved" /\ s.res = "result"
          /\ s.load # 0 /\ ~loads[s.load].stale
          /\ \E l \in DOMAIN loads : loads[l].stale

\* A message that is null, undefined, not a string, empty or whitespace-only.
isInvalidMessage(message) ==
    \/ message.t # "string"
    \/ \A i \in DOMAIN message.v : message.v[i] \in WhiteSpace

\* An error about the message argument.
isInvalidInputError(error) ==
    Len(error) >= 2 /\ SubSeq(error, 1, 2) = <<"Message", "must">>

\* C7: in every state of the classifier, a classify(message) whose message
\* is null, undefined, not a string, empty or whitespace-only is rejected
\* with an invalid-input error and gives no result.
C7_InvalidMessageIsRejected ==
    \A s \in settled :
        s.kind = "classify" /\ isInvalidMessage(s.arg)
        => /\ s.pc = "rejected"
           /\ s.res = "none"
           /\ isInvalidInputError(s.error)

\* The load that the call's await initialize() waited for went well.
initializeResolved(s) == s.load = 0 \/ loads[s.load].pc = "done"

\* C8: classify(null), classify(123) and classify("") are each rejected
\* with an error whose message contains "must be a non-empty string".
C8_SameMessageForNullNumberAndEmpty ==
    \A s \in settled :
        /\ s.kind = "classify"
        /\ s.arg \in {JsNull, JsNumber(<<"1", "2", "3">>), JsString(<<>>)}
        /\ initializeResolved(s)
        => /\ s.pc = "rejected"
           /\ Contains(s.error, <<"must", "be", "a", "non-empty", "string">>)

\* C9: weights are kept, and the classifier is initialized, only from a
\* weights file whose float count is that of the layout: 4096 + 64 +
\* 64 * 16 + 16 + vocab_size * 64, each tensor having its size.
C9_WeightsHaveLayoutLength ==
    [][ \A l \in DOMAIN loads :
            loads[l].pc = "weights" /\ loads'[l].pc = "done"
                                    /\ vocabMap' # Null
            => /\ weights'.dense1Kernel = 4096
               /\ weights'.dense1Bias = 64
               /\ weights'.dense2Kernel = 64 * 16
               /\ weights'.dense2Bias = 16
               /\ weights'.embedding =
                     Cardinality(DOMAIN vocabMap'.map) * 64 ]_vars

\* A modelPath option that is given and is not a string, or is an empty or
\* whitespace-only string.
isInvalidModelPath(modelPath) ==
    /\ modelPath # JsUndefined
    /\ \/ modelPath.t # "string"
       \/ \A i \in DOMAIN modelPath.v : modelPath.v[i] \in WhiteSpace

\* An error about the modelPath option.
isConfigurationError(error) ==
    Len(error) >= 2 /\ SubSeq(error, 1, 2) = <<"modelPath", "must">>

\* The call initialize({modelPath}) is rejected at once, with a
\* configuration error.
rejectsModelPath(modelPath) ==
    /\ pending' = pending
    /\ \E s \in settled' :
          /\ settled' = {s}
          /\ s.kind = "initialize" /\ s.arg = modelPath
          /\ s.pc = "rejected" /\ isConfigurationError(s.error)

\* C10 (as stated): in every state (uninitialized, load in flight,
\* initialized), initialize() with an invalid modelPath fails with a
\* configuration error and changes no process-wide state.
C10_InvalidModelPathAlwaysRejected ==
    [][ \A modelPath \in ModelPathOptions :
            isInvalidModelPath(modelPath)
                /\ initialize([modelPath |-> modelPath])
            => /\ UNCHANGED <<singleton, loads>>
               /\ rejectsModelPath(modelPath) ]_vars

\* C10 (amended): initialize() with an invalid modelPath changes no
\* process-wide state and starts no load; it fails with a configuration
\* error when the classifier is uninitialized with no load in flight, it
\* resolves when the classifier is initialized, and it waits for the load
\* in flight when there is one.
C10_InvalidModelPathRejectedOnlyWhenIdle ==
    [][ \A modelPath \in ModelPathOptions :
            isInvalidModelPath(modelPath)
                /\ initialize([modelPath |-> modelPath])
            => /\ UNCHANGED <<singleton, loads>>
               /\ ~isReady /\ initPromise = 0 => rejectsModelPath(modelPath)
               /\ isReady =>
                     /\ pending' = pending
                     /\ settled' =
                          { Settled(Pending("initialize", modelPath, 0),
                                    "resolved", NoError, "none") }
               /\ ~isReady /\ initPromise # 0 =>
                     /\ settled' = {}
                     /\ newlyPending(Pending("initialize", modelPath,
                                             initPromise)) ]_vars

\* C10 witness: an initialize() with a whitespace-only modelPath has been
\* rejected with a configuration error, nothing being loaded or in flight.
C10_Witness ==
    /\ ~isReady /\ initPromise = 0
    /\ \E s \in settled :
          /\ s.kind = "initialize" /\ s.arg = JsString(<<" ">>)
          /\ s.pc = "rejected" /\ isConfigurationError(s.error)

(***************************************************************************)
(* The helpers, stated on the characters of the message.                   *)
(***************************************************************************)
digitsAt(m, i, j) == \A k \in i..j : m[k] \in Digits

\* The message begins with three digits and then a whitespace or a hyphen.
beginsWithMainCode(m) ==
    Len(m) >= 4 /\ digitsAt(m, 1, 3) /\ m[4] \in Spaces \cup {"-"}

\* m[i..j] is one of 2, 4, 5, a dot, one to three digits, a dot and one
\* to three digits, with no word character just before or just after.
isExtendedCodeAt(m, i, j) ==
    \E a \in 1..3, b \in 1..3 :
        /\ j = i + a + b + 2 /\ j <= Len(m)
        /\ m[i] \in {"2", "4", "5"} /\ m[i + 1] = "."
        /\ digitsAt(m, i + 2, i + 1 + a) /\ m[i + 2 + a] = "."
        /\ digitsAt(m, i + 3 + a, j)
        /\ i > 1 => m[i - 1] \notin WordChars
        /\ j < Len(m) => m[j + 1] \notin WordChars

extendedCodeStarts(m) ==
    { i \in 1..Len(m) : \E j \in i..Len(m) : isExtendedCodeAt(m, i, j) }

\* The first such substring of m (there is one).
firstExtendedCode(m) ==
    LET i == SetMin(extendedCodeStarts(m))
    IN  SubSeq(m, i, CHOOSE j \in i..Len(m) : isExtendedCodeAt(m, i, j))

\* C13: extractSmtpCodes gives as mainCode the three digits the message
\* begins with when a whitespace or a hyphen follows them, and null
\* otherwise; as extendedCode the first substring [245].d{1,3}.d{1,3}
\* between word boundaries, anywhere in the message, or null; each field
\* whatever the other is.
C13_SmtpCodesByPosition ==
    \A s \in settled :
        s.kind = "extractSmtpCodes"
        => /\ s.res.mainCode =
                IF beginsWithMainCode(s.arg)
                THEN JsString(SubSeq(s.arg, 1, 3)) ELSE JsNull
           /\ s.res.extendedCode =
                IF extendedCodeStarts(s.arg) = {} THEN JsNull
                ELSE JsString(firstExtendedCode(s.arg))

\* C13 witness: a message with a three-digit code after a leading space and
\* an extended code: mainCode is null and extendedCode is found.
C13_Witness ==
    \E s \in settled :
        /\ s.kind = "extractSmtpCodes"
        /\ startsWithAt(s.arg, 1, <<" ", "5", "5", "0", "-">>)
        /\ s.res.mainCode = JsNull
        /\ s.res.extendedCode = JsString(<<"5", ".", "1", ".", "1">>)

\* The text pattern (a phrase, or two phrases and at most 50 characters of
\* one line between them) occurs in the lower-case message.
occursIn(pattern, lower) ==
    IF Len(pattern) = 1
    THEN \E i \in 1..Len(lower) : startsWithAt(lower, i, pattern[1].w)
    ELSE \E i \in 1..Len(lower), j \in 1..Len(lower) :
            /\ startsWithAt(lower, i, pattern[1].w)
            /\ startsWithAt(lower, j, pattern[3].w)
            /\ j >= i + Len(pattern[1].w)
            /\ j - (i + Len(pattern[1].w)) <= 50
            /\ \A k \in (i + Len(pattern[1].w))..(j - 1) :
                  lower[k] \notin LineEnds

textPatternsIn(m) ==
    { k \in 1..Len(TEXT_PATTERN_FALLBACKS) :
        occursIn(TEXT_PATTERN_FALLBACKS[k].pattern, toLowerCase(m)) }

\* The label the extended code of m has in SMTP_CODE_MAP, the main code of m
\* in SMTP_MAIN_CODE_MAP; NoLabel if there is no code or no entry.
extendedCodeLabel(m) ==
    IF extendedCodeStarts(m) = {} THEN NoLabel
    ELSE lookup(SMTP_CODE_MAP, firstExtendedCode(m))

mainCodeLabel(m) ==
    IF beginsWithMainCode(m) THEN lookup(SMTP_MAIN_CODE_MAP, SubSeq(m, 1, 3))
    ELSE NoLabel

\* C12: getCodeBasedFallback gives the label of the first text pattern, in
\* list order, that the message matches; with no such pattern, the
\* SMTP_CODE_MAP entry of the extended code; with no such entry, the
\* SMTP_MAIN_CODE_MAP entry of the main code; and null otherwise.
C12_FallbackCascade ==
    \A s \in settled :
        s.kind = "getCodeBasedFallback"
        => s.res =
             IF textPatternsIn(s.arg) # {}
             THEN TEXT_PATTERN_FALLBACKS[SetMin(textPatternsIn(s.arg))].label
             ELSE IF extendedCodeLabel(s.arg) # NoLabel
             THEN extendedCodeLabel(s.arg)
             ELSE mainCodeLabel(s.arg)

\* C12 witness: the message matches a text pattern and has an extended code
\* and a main code with entries of other labels; the text pattern wins.
C12_Witness ==
    \E s \in settled :
        /\ s.kind = "getCodeBasedFallback"
        /\ s.res = "auth_failure"
        /\ extendedCodeLabel(s.arg) = "rate_limited"
        /\ mainCodeLabel(s.arg) = "greylisting"

\* C14: extractRetryTiming returns null or a whole number of seconds from 1
\* to 86400; a duration of 0 or of more than 86400 seconds is not returned.
C14_RetryTimingInRange ==
    \A s \in settled :
        s.kind = "extractRetryTiming"
        => \/ s.res = JsNull
           \/ s.res.t = "number" /\ s.res.n \in 1..86400

Letters == { UpperCase[i] : i \in 1..26 } \cup { LowerCase[i] : i \in 1..26 }

\* The parts of a piece of retry advice: the unit is the letters it ends
\* with, the number the digits before the unit (a space may separate them),
\* the phrase what comes before the number.
lastNot(m, class, end) ==
    LET others == { k \in 1..end : m[k] \notin class }
    IN  IF others = {} THEN 0 ELSE SetMax(others)

unitOf(m) == SubSeq(m, lastNot(m, Letters, Len(m)) + 1, Len(m))

numberEnd(m) ==
    LET end == lastNot(m, Letters, Len(m))
    IN  IF end > 0 /\ m[end] = " " THEN end - 1 ELSE end

numberOf(m) == SubSeq(m, lastNot(m, Digits, numberEnd(m)) + 1, numberEnd(m))

phraseOf(m) == SubSeq(m, 1, lastNot(m, Digits, numberEnd(m)))

\* C14 witness: advice to wait 100000 seconds gives null.
C14_Witness ==
    \E s \in settled :
        /\ s.kind = "extractRetryTiming"
        /\ numberOf(s.arg) = <<"1", "0", "0", "0", "0", "0">>
        /\ unitOf(s.arg) = <<"s", "e", "c", "o", "n", "d", "s">>
        /\ phraseOf(s.arg) = <<"w", "a", "i", "t", " ">>
        /\ s.res = JsNull

\* The unit spellings and the seconds in one of each.
UnitSeconds ==
    << <<<<"s">>, 1>>, <<<<"s", "e", "c">>, 1>>,
       <<<<"s", "e", "c", "o", "n", "d">>, 1>>,
       <<<<"s", "e", "c", "o", "n", "d", "s">>, 1>>,
       <<<<"m">>, 60>>, <<<<"m", "i", "n">>, 60>>,
       <<<<"m", "i", "n", "u", "t", "e">>, 60>>,
       <<<<"m", "i", "n", "u", "t", "e", "s">>, 60>>,
       <<<<"h">>, 3600>>, <<<<"h", "r">>, 3600>>,
       <<<<"h", "o", "u", "r">>, 3600>>,
       <<<<"h", "o", "u", "r", "s">>, 3600>> >>

isListedUnit(unit) == \E e \in 1..Len(UnitSeconds) : UnitSeconds[e][1] = unit

secondsOf(number, unit) ==
    parseInt(number)
    * UnitSeconds[CHOOSE e \in 1..Len(UnitSeconds) : UnitSeconds[e][1] = unit][2]

\* C15: for a retry phrase, a number n and a unit among s, sec, second(s),
\* m, min, minute(s), h, hr, hour(s), extractRetryTiming returns n, n * 60 or
\* n * 3600 by the unit, whenever that is from 1 to 86400.
C15_UnitsNormalized ==
    \A s \in settled :
        /\ s.kind = "extractRetryTiming"
        /\ phraseOf(s.arg) \in RetryPhrases
        /\ numberOf(s.arg) # <<>>
        /\ isListedUnit(unitOf(s.arg))
        /\ secondsOf(numberOf(s.arg), unitOf(s.arg)) \in 1..86400
        => s.res = Seconds(secondsOf(numberOf(s.arg), unitOf(s.arg)))

\* The signatures of BLOCKLIST_PATTERNS that the message matches, and their
\* names.
signaturesIn(m) ==
    { k \in 1..Len(BLOCKLIST_PATTERNS) :
        test(BLOCKLIST_PATTERNS[k].pattern, toLowerCase(m)) }

namesIn(m) == { BLOCKLIST_PATTERNS[k].name : k \in signaturesIn(m) }

\* The entry {name, type} of the first signature of that name.
firstEntry(name) ==
    LET k == SetMin({ j \in 1..Len(BLOCKLIST_PATTERNS) :
                         BLOCKLIST_PATTERNS[j].name = name })
    IN  [name |-> name, type |-> BLOCKLIST_PATTERNS[k].type]

\* C16: identifyBlocklist returns null when no signature matches; when
\* signatures other than RBL, DNSBL and Blocklist match, the entry of the one
\* such name, or {lists} with one entry for each such name and no generic
\* entry; when only generic signatures match, the entry of the first of
\* them in the order of the list.
C16_BlocklistSelection ==
    \A s \in settled :
        s.kind = "identifyBlocklist"
        => LET names == namesIn(s.arg)
               specific == names \ {"RBL", "DNSBL", "Blocklist"}
           IN  /\ names = {} => s.res = JsNull
               /\ Cardinality(specific) = 1
                     => \E name \in specific : s.res = firstEntry(name)
               /\ Cardinality(specific) > 1
                     => /\ DOMAIN s.res = {"lists"}
                        /\ Len(s.res.lists) = Cardinality(specific)
                        /\ { s.res.lists[k] : k \in 1..Len(s.res.lists) }
                              = { firstEntry(name) : name \in specific }
               /\ names # {} /\ specific = {}
                     => s.res = firstEntry(
                           BLOCKLIST_PATTERNS[SetMin(signaturesIn(s.arg))].name)

\* C16 witness: two blocklists and a generic signature match; the result is
\* the list of the two.
C16_Witness ==
    \E s \in settled :
        /\ s.kind = "identifyBlocklist"
        /\ "RBL" \in namesIn(s.arg)
        /\ DOMAIN s.res = {"lists"}
        /\ Len(s.res.lists) = 2

\* The six actions.
Actions ==
    {"remove", "retry", "retry_different_ip", "fix_configuration", "review",
     "remove_content"}

\* C18: getAction gives each of the 16 labels its ACTION_MAP entry, one of
\* the six actions, and every other argument "review".
C18_ActionOfEveryCategory ==
    \A s \in settled :
        s.kind = "getAction"
        => IF \E i \in 1..Len(LabelNames) : LabelNames[i] = s.arg
           THEN s.res = ACTION_MAP[s.arg] /\ s.res \in Actions
           ELSE s.res = "review"

\* C17: a message that names zen.spamhaus.org yields the single entry
\* {name: "Spamhaus ZEN", type: "ip"}, not a list of several entries.
C17_ZenIsOneEntry ==
    \A s \in settled :
        (s.kind = "identifyBlocklist" /\ s.arg \in {ZenMessage, ZenReply})
        => s.res = [name |-> "Spamhaus ZEN", type |-> "ip"]

\* The label of the highest score of a result, the first one in label order.
topScore(r) == SetMax({ r.scores[name] : name \in DOMAIN r.scores })

topLabel(r) ==
    LabelNames[SetMin({ i \in 1..Len(LabelNames) :
                          r.scores[LabelNames[i]] = topScore(r) })]

\* C11: in classify the rule fallback decides the label exactly when the
\* highest score is strictly below 0.5 and the fallback gives a label: then
\* the label is that label and usedFallback is true; otherwise the label is
\* the label of the highest score and usedFallback is absent.  In all cases
\* confidence is the highest score and action is getAction of the label.
C11_FallbackBelowThreshold ==
    \A s \in settled :
        (s.kind = "classify" /\ s.pc = "resolved")
        => LET r == s.res
               fallback == getCodeBasedFallback(sanitizeMessage(s.arg).value)
           IN  /\ r.confidence = topScore(r)
               /\ r.action = getAction(r.label)
               /\ IF 2 * topScore(r) < ScoreScale /\ fallback # NoLabel
                  THEN /\ r.label = fallback
                       /\ "usedFallback" \in DOMAIN r
                       /\ r.usedFallback = TRUE
                  ELSE /\ r.label = topLabel(r)
                       /\ "usedFallback" \notin DOMAIN r

\* A call whose label came from the rules and is not the label of the
\* highest score.
C11_Witness ==
    \E s \in settled :
        /\ s.kind = "classify"
        /\ s.pc = "resolved"
        /\ "usedFallback" \in DOMAIN s.res
        /\ s.res.label # topLabel(s.res)
        /\ s.res.confidence = topScore(s.res)
        /\ 2 * s.res.confidence < ScoreScale

\* C19: for every valid message m, classify(m) gives what classify gives for
\* the first MAX_MESSAGE_LENGTH characters of m.
C19_TruncatedLikePrefix ==
    \A s \in settled :
        (s.kind = "classify" /\ sanitizeMessage(s.arg).ok)
        => LET prefix == JsString(substring0(s.arg.v, MAX_MESSAGE_LENGTH))
               ofPrefix == classifyOutcome(prefix)
           IN  /\ s.pc = ofPrefix.pc
               /\ s.error = ofPrefix.error
               /\ s.res = ofPrefix.res

\* C20: classifyBatch(messages) rejects an argument that is not an array
\* with an error that says "must be an array"; for an array of n messages it
\* returns n results in the order of the messages, the i-th having the
\* label, confidence, action and scores of classify for the i-th message.
C20_BatchResults ==
    \A s \in settled :
        s.kind = "classifyBatch"
        => IF s.arg.t # "array"
           THEN /\ s.pc = "rejected"
                /\ Contains(s.error, <<"must", "be", "an", "array">>)
           ELSE /\ s.pc = "resolved"
                /\ Len(s.res) = Len(s.arg.v)
                /\ \A i \in 1..Len(s.arg.v) :
                      LET one == classifyOutcome(s.arg.v[i]).res
                      IN  /\ s.res[i].label = one.label
                          /\ s.res[i].confidence = one.confidence
                          /\ s.res[i].action = one.action
                          /\ s.res[i].scores = one.scores

\* C27: in every reachable state, isReady() implies that the vocabulary,
\* the labels and the weights are loaded.
C27_ReadyImpliesLoaded ==
    isReady => (vocabMap # Null /\ labels # Null /\ weights # Null)

\* C28: among the loads started after the most recent reset() at most one
\* is in flight, and the failure of a load started before a reset() does
\* not clear the pending promise of a load started after it.
C28_OneLoadSinceReset ==
    [][ /\ Cardinality({ l \in DOMAIN loads' :
                           loads'[l].pc \in InFlight /\ ~loads'[l].stale }) <= 1
        /\ \A l \in DOMAIN loads :
              (loads[l].stale /\ loadSettles(l) /\ loads'[l].pc = "failed")
              => initPromise' = initPromise ]_vars

\* The call s was rejected with the error of the load it waited for.
rejectedByLoad(s) ==
    /\ s.pc = "rejected"
    /\ s.load # 0
    /\ loads[s.load].pc = "failed"
    /\ s.error = loads[s.load].error

\* C29: a classify() call whose wait on initialization has completed
\* successfully goes on with the vocabulary, the labels and the weights
\* loaded, reset() or not, and so ends only with a result, an invalid-input
\* error or a load error.
C29_ClassifyRunsOnLoadedState ==
    \A s \in settled :
        s.kind = "classify"
        => /\ ~rejectedByLoad(s)
              => (vocabMap # Null /\ labels # Null /\ weights # Null)
           /\ \/ s.pc = "resolved"
              \/ isInvalidInputError(s.error)
              \/ rejectedByLoad(s)

\* C26: a classify() call on an initialized classifier writes no state of
\* the module: neither the step that makes the call nor the step that ends
\* it, with a result or with an invalid-input error, changes the
\* vocabulary, the labels, the weights, the initialized flag or the init
\* promise.
C26_ClassifyWritesNoState ==
    [][ ( \/ \E c \in BagToSet(pending') :
                c.kind = "classify" /\ c.load = 0 /\ newlyPending(c)
          \/ \E s \in settled' : s.kind = "classify" /\ s.load = 0 )
        => UNCHANGED <<vocabMap, labels, weights, isInitialized,
                       initPromise>> ]_vars

\* A call made on an initialized classifier has failed on invalid input,
\* and the classifier is still initialized.
C26_Witness ==
    \E s \in settled :
        /\ s.kind = "classify"
        /\ s.load = 0
        /\ s.pc = "rejected"
        /\ isInvalidInputError(s.error)
        /\ isReady
        /\ initPromise # 0

\* C30: every message whose first MAX_MESSAGE_LENGTH characters are all
\* white space is rejected by the validation, so that classify never
\* tokenizes an empty or whitespace-only text.
C30_WhitespaceOnlyIsRejected ==
    \A s \in settled :
        ( /\ s.kind = "classify"
          /\ s.arg.t = "string"
          /\ trim(substring0(s.arg.v, MAX_MESSAGE_LENGTH)) = <<>> )
        => s.pc = "rejected" /\ isInvalidInputError(s.error)

\* The indices, in label order, of the labels that have the highest score
\* of a result.
topIndices(r) ==
    { i \in 1..Len(LabelNames) :
        \A j \in 1..Len(LabelNames) :
            r.scores[LabelNames[j]] <= r.scores[LabelNames[i]] }

\* C23: the label of the model is the one of the smallest index whose score
\* is the maximum, and the confidence is that maximum.
C23_ArgmaxLowestIndex ==
    \A s \in settled :
        (s.kind = "classify" /\ s.pc = "resolved")
        => LET r == s.res
           IN  /\ \A i \in topIndices(r) :
                     r.confidence = r.scores[LabelNames[i]]
               /\ "usedFallback" \notin DOMAIN r
                  => \E i \in topIndices(r) :
                        /\ r.label = LabelNames[i]
                        /\ \A j \in topIndices(r) : i <= j

\* Two labels have the highest score and the result has the first.
C23_Witness ==
    \E s \in settled :
        /\ s.kind = "classify"
        /\ s.pc = "resolved"
        /\ Cardinality(topIndices(s.res)) > 1
        /\ "usedFallback" \notin DOMAIN s.res
        /\ s.res.label = LabelNames[SetMin(topIndices(s.res))]

\* The patterns of RETRY_PATTERNS that match the message.
retryPatternsIn(message) ==
    { k \in 1..Len(RETRY_PATTERNS) :
        test(RETRY_PATTERNS[k].pattern, toLowerCase(message)) }

\* C24: extractRetryTiming is decided by the first pattern, in list order,
\* that matches: the result is the seconds of its match if they are in
\* [1, 86400] and null if not, whatever the later patterns match.
C24_FirstMatchingPatternDecides ==
    \A s \in settled :
        s.kind = "extractRetryTiming"
        => LET matching == retryPatternsIn(s.arg)
           IN  IF matching = {} THEN s.res = JsNull
               ELSE IF retrySeconds(s.arg, SetMin(matching)) = 0
               THEN s.res = JsNull
               ELSE s.res = Seconds(retrySeconds(s.arg, SetMin(matching)))

\* The first signature of the list that has the name and matches the
\* message.
firstSignature(name, message) ==
    SetMin({ k \in signaturesIn(message) : BLOCKLIST_PATTERNS[k].name = name })

\* C25: a list returned by identifyBlocklist has at least two entries, no
\* two of the same name and none of a generic name, in the order in which
\* their signatures first match; for "Blocked by spamhaus.org and barracuda"
\* it is Spamhaus, Barracuda.
C25_ListsAreDistinctAndSpecific ==
    \A s \in settled :
        (s.kind = "identifyBlocklist" /\ "lists" \in DOMAIN s.res)
        => LET lists == s.res.lists
           IN  /\ Len(lists) >= 2
               /\ \A i, j \in 1..Len(lists) :
                     i < j => /\ lists[i].name # lists[j].name
                              /\ firstSignature(lists[i].name, s.arg)
                                   < firstSignature(lists[j].name, s.arg)
               /\ \A i \in 1..Len(lists) :
                     lists[i].name \notin {"RBL", "DNSBL", "Blocklist"}
               /\ s.arg = SpamhausAndBarracuda
                  => lists = << [name |-> "Spamhaus", type |-> "ip"],
                                [name |-> "Barracuda", type |-> "ip"] >>

\* The message of the test has returned its list.
C25_Witness ==
    \E s \in settled :
        /\ s.kind = "identifyBlocklist"
        /\ s.arg = SpamhausAndBarracuda
        /\ "lists" \in DOMAIN s.res
        /\ Len(s.res.lists) = 2

\* The positions of a text where a word starts: a letter, a digit or an
\* underscore that does not follow one.
wordStarts(text) ==
    { i \in 1..Len(text) :
        /\ text[i] \in WordChars
        /\ i > 1 => text[i - 1] \notin WordChars }

\* The k-th word of a text, in lower case.
wordAt(text, k) ==
    LET start == CHOOSE i \in wordStarts(text) :
                     Cardinality({ j \in wordStarts(text) : j <= i }) = k
        stops == { j \in start..Len(text) : text[j] \notin WordChars }
        end == IF stops = {} THEN Len(text) ELSE SetMin(stops) - 1
    IN  toLowerCase(SubSeq(text, start, end))

\* The id of a word in the vocabulary, 1 for a word that is not in it.
idOf(word) ==
    IF \E w \in DOMAIN vocabMap.map : Len(w) = Len(word) /\ w = join(word)
    THEN vocabMap.map[join(word)]
    ELSE 1

=============================================================================
